---- MODULE Spec2Model ----
(***************************************************************************)
(* A model of the server side of provrb/react (src/src/ServerInterface.cpp *)
(* and the NetworkManager / ServerInterface declarations of                *)
(* src/unnamed/part_000).                                                  *)
(*                                                                         *)
(* Spec          one accepted TCP connection, from AcceptTCPConnections    *)
(*               to the end of its threads: the accept thread running      *)
(*               OnTCPConnection, the session's receive thread             *)
(*               (TCPReceiveMessagesFromClient), its keep-alive thread     *)
(*               (SendKeepAlivePackets), the operator thread               *)
(*               (RunUserInputOnClients) and the peer.  Every step is one  *)
(*               access to shared state or one blocking socket call.       *)
(* SpecRegistry  the session table under several concurrent inserting      *)
(*               threads (AddToClientList), erasure and eviction.          *)
(***************************************************************************)
EXTENDS Integers, Sequences, FiniteSets, TLC

(***************************************************************************)
(* Bounds of the model.                                                    *)
(***************************************************************************)
\* frames the peer sends once the receive thread runs
MaxFrames == 3
\* frames in flight on the connection
MaxInbox == 1
\* polls of 100 ms in one keep-alive round; the source has
\* keepAliveTimeoutMs / 100 = 50 (src/unnamed/part_000:272)
KeepAlivePolls == 2
\* commands the operator enters
MaxCommands == 1
\* connections that inserting threads add in SpecRegistry
MaxSessions == 3
\* sessions that disconnect again in SpecAccept
MaxChurn == 1
\* longest payload handed to the framed send in SpecFraming
MaxPayload == 2
\* keep-alive probes the server sends in SpecEcho
MaxProbes == 2

(***************************************************************************)
(* Program constants.                                                      *)
(***************************************************************************)
SOCKET_ERROR == -1
\* the accept loop's bound on m_ClientList.size()
AcceptLimit == 200
\* m_Config.maxConnections
maxConnections == 100
\* m_Config.keepAliveTimeoutMs
keepAliveTimeoutMs == 5000
\* the receive timeout of WaitForClientResponse, in ms
WaitTimeoutMs == 10000

(***************************************************************************)
(* Frames.  A frame is what the peer put on the wire; the codec and the    *)
(* cryptography are external, so a frame is described by what the server   *)
(* can observe of it: whether its decryption passes LGCrypto::GoodDecrypt, *)
(* and the valid flag and action code it deserializes to.                  *)
(***************************************************************************)
Frame(g, v, a) == [good |-> g, valid |-> v, action |-> a]
NoFrame == Frame(FALSE, FALSE, "none")
\* tampered ciphertext; its bytes would read as a disconnect request
BadFrame == Frame(FALSE, TRUE, "kDisconnectClient")
EchoFrame == Frame(TRUE, TRUE, "kKeepAlive")
DisconnectFrame == Frame(TRUE, TRUE, "kDisconnectClient")
InvalidFrame == Frame(TRUE, FALSE, "kDisconnectClient")
ResponseFrame == Frame(TRUE, TRUE, "kResponse")
PeerFrames == {BadFrame, EchoFrame, DisconnectFrame, InvalidFrame, ResponseFrame}

\* a C++ bool as the model records a call's return value ("none": no return yet)
Bool(b) == IF b THEN "true" ELSE "false"

\* LGCrypto::GoodDecrypt applied to LGCrypto::RSADecrypt of the frame
GoodDecrypt(f) == f.good

(***************************************************************************)
(* Client records.                                                         *)
(***************************************************************************)
\* Client::Client(SOCKET, sockaddr_in) followed by client.Alive = TRUE
NewClient(id) ==
  [ ClientUID |-> id, Alive |-> TRUE, Socket |-> "open",
    ClientPublicKey |-> "null", DesktopName |-> "", MachineGUID |-> "",
    Wallet |-> "", ExpectingResponse |-> FALSE, KeepAliveProcess |-> FALSE,
    KeepAliveSuccess |-> FALSE ]

\* the identifier the Client constructor generates: one never issued before
GenerateCUID(issued) == issued + 1

\* Client::Disconnect: the connection handle is invalid afterwards
Disconnect(c) == [c EXCEPT !.Socket = "invalid"]

\* std::unordered_map::insert keyed by ClientUID: an existing key is kept
AddToClientList_WrongKey(list, client) ==
  IF 0 \in DOMAIN list THEN list ELSE list @@ (0 :> client)

AddToClientList(list, client) ==
  IF client.ClientUID \in DOMAIN list
    THEN list
    ELSE list @@ (client.ClientUID :> client)

\* m_ClientList.erase(cuid): no error if absent
Erase(list, id) == [k \in DOMAIN list \ {id} |-> list[k]]

\* the checks of Send/Receive return values in ExchangePublicKeys
KxFailed_Lenient(n) == n < 0

KxFailed(n) == n <= 0

\* the validity gates of the receive paths
RequestGate_Open(f) == TRUE

RequestGate(f) == GoodDecrypt(f)

EchoGate(f) == GoodDecrypt(f)

ResponseGate(f) == GoodDecrypt(f)

IdentityGate_Open(f) == TRUE

IdentityGate(f) == GoodDecrypt(f)

VARIABLES
  m_ClientList,       \* the session table: ClientUID -> Client
  m_ClientListMutex,  \* "free" or "held"
  stateFile,          \* keys of client_list in the persisted state file
  tcpAlive,           \* m_TCPServerDetails.alive
  issued,             \* identifiers the Client constructor has generated
  sock,               \* the connection's socket: "none", "open", "closed"
  peerClosed,         \* the peer has closed its end
  inbox,              \* frames sent by the peer and not yet read
  framesSent,         \* frames the peer has sent
  acceptPc,           \* the accept thread, inside OnTCPConnection
  cuid,               \* client.ClientUID of the accepted connection
  kxSteps,            \* ExchangePublicKeys: the socket calls made, in order
  kxLast,             \* ExchangePublicKeys: the last call's return value
  kxResult,           \* ExchangePublicKeys: "none" or its return value
  nameResult,         \* GetClientComputerName: "none" or its return value
  guidResult,         \* GetClientMachineGUID: "none" or its return value
  idFrames,           \* the frames those two calls received
  recvPc,             \* the receive thread
  recvFrame,          \* the frame the receive thread holds
  performed,          \* "none" or what PerformRequest returned
  waitResult,         \* "none" or how WaitForClientResponse returned
  kaPc,               \* the keep-alive thread
  timePassedMs,       \* the keep-alive poll counter, in polls
  opPc,               \* the operator thread
  opCommand,          \* the command the operator entered
  commands,           \* commands entered so far
  regPc,              \* SpecRegistry: each inserting thread's position
  regClient           \* SpecRegistry: the client each thread constructed

\* SpecFraming: one framed send and one framed receive over a TCP connection
VARIABLES
  txFn,               \* the sending function: "TransmitData" or "SendTCPLargeData"
  rxFn,               \* the receiving function: "ReceiveData" or "ReceiveTCPLargeData"
  transport,          \* what the socket calls may do: "whole", "short", "failing"
  txPayload,          \* the bytes handed to the framed send
  txPc,               \* the sender's position
  txWritten,          \* every byte the transport has accepted, in order
  bytesSent,          \* SendTCPLargeData: payload bytes sent so far
  txResult,           \* "none" or what the framed send returned
  rxPc,               \* the receiver's position
  rxPos,              \* bytes of txWritten the receiver has read
  dataSize,           \* the length the receiver decoded
  rxBuf,              \* the bytes received into the receiver's buffer
  bytesReceived,      \* ReceiveTCPLargeData: payload bytes received so far
  rxResult,           \* "none" or what the framed receive returned
  rxData              \* the receiver's output

\* SpecTimeout: the socket's timeout options around the two bounded calls
VARIABLES
  sndTimeo,           \* the socket's SO_SNDTIMEO, in ms
  rcvTimeo,           \* the socket's SO_RCVTIMEO, in ms
  tkPc,               \* the keep-alive thread's position in its probe send
  tkSent,             \* "none" or what the probe's TransmitData returned
  twPc,               \* the receive thread's position in WaitForClientResponse
  twOutcome,          \* how the bounded receive ended
  seenRcv             \* SO_RCVTIMEO as the receive loop's ReceiveData found it

\* SpecRequest: one call of PerformRequest
VARIABLES
  req,                \* the ClientRequest: its valid flag and its action
  on,                 \* the server the request arrived on: "TCP" or "UDP"
  hadSession,         \* the sender's session was in the table at the call
  incoming,           \* the sender's address (UDP)
  sendOk,             \* whether TransmitData succeeds in this call
  prPc,               \* the position inside PerformRequest
  prSuccess,          \* PerformRequest's local success
  prResult,           \* "none" or the value the caller received
  udpOut,             \* messages transmitted over the UDP socket
  tcpOut              \* messages transmitted to sessions over TCP

\* SpecPersist: the state file as ReadServerStateFile finds it
VARIABLES
  fileKind,           \* the file: "absent", "empty", "unparsable" or "json"
  psCaller,           \* the path that uses the file: "OnTCPConnection" or "kDisconnectClient"
  psPc,               \* the caller's position
  psParsed,           \* whether ReadServerStateFile has returned, and what
  psRunning           \* the process has not been terminated

\* SpecIterate: one whole-table iteration and the threads beside it
VARIABLES
  itKind,             \* the iteration: "broadcast" or "SaveServerState"
  itKill,             \* the broadcast command is kKillClient
  itPc,               \* the iterating thread's position
  itSnapshot,         \* the keys of the table when the iteration began
  itTodo,             \* the keys the iteration has not visited yet
  itCur,              \* the key of the element being visited
  itSent,             \* the sessions the broadcast has transmitted to
  itSkipped,          \* the sessions the broadcast found not alive
  mutPc               \* the thread that inserts and erases sessions

\* SpecUDP: the UDP socket and ListenForUDPMessages
VARIABLES
  udpAlive,           \* m_UDPServerDetails.alive
  udpPc,              \* the position of ListenForUDPMessages
  udpQueue,           \* datagrams that arrived at the UDP socket, unread
  udpSenders,         \* each peer's position in sending its request
  udpAddr,            \* incomingAddr
  udpReq,             \* req
  udpReceived,        \* the requests ReceiveData reported as received, in order
  udpDispatched       \* the calls of PerformRequest made by the loop, in order

\* SpecShutdown: ShutdownServer beside the accept loop and the UDP loop
VARIABLES
  accepting,          \* m_TCPServerDetails.accepting
  tcpSfd,             \* m_TCPServerDetails.sfd: "listening", "closed" or "blank"
  udpSfd,             \* m_UDPServerDetails.sfd: "bound" or "closed"
  shConfirm,          \* the argument of ShutdownServer
  shPc,               \* the position of the thread that calls ShutdownServer
  alPc                \* the position of AcceptTCPConnections

\* SpecEcho: a peer that echoes the keep-alive probes it receives
VARIABLES
  probes              \* keep-alive probes transmitted to the peer

\* SpecMutex: threads that call the operations on m_ClientListMutex
VARIABLES
  mxOwner,            \* the thread that holds m_ClientListMutex, 0 when it is free
  mxOp,               \* the operation each thread is in ("none" outside)
  mxPc,               \* each thread's position in its operation
  mxArg               \* the cuid each thread passed

mutexVars == <<mxOwner, mxOp, mxPc, mxArg>>
echoVars == <<probes>>
shutdownVars == <<accepting, tcpSfd, udpSfd, shConfirm, shPc, alPc>>
persistVars == <<fileKind, psCaller, psPc, psParsed, psRunning>>
udpVars ==
  <<udpAlive, udpPc, udpQueue, udpSenders, udpAddr, udpReq, udpReceived, udpDispatched>>
iterateVars == <<itKind, itKill, itPc, itSnapshot, itTodo, itCur, itSent, itSkipped, mutPc>>
\* the variables of the specifications added for single functions later on
sideVars == <<persistVars, iterateVars, udpVars, shutdownVars, echoVars, mutexVars>>
requestVars ==
  <<req, on, hadSession, incoming, sendOk, prPc, prSuccess, prResult, udpOut, tcpOut>>
timeoutVars == <<sndTimeo, rcvTimeo, tkPc, tkSent, twPc, twOutcome, seenRcv>>
framingVars ==
  <<txFn, rxFn, transport, txPayload, txPc, txWritten, bytesSent, txResult,
    rxPc, rxPos, dataSize, rxBuf, bytesReceived, rxResult, rxData>>
\* the variables of the specifications that model one function on its own
auxVars == <<framingVars, timeoutVars, requestVars, sideVars>>

serverVars == <<m_ClientList, m_ClientListMutex, stateFile, tcpAlive, issued>>
peerVars == <<sock, peerClosed, inbox, framesSent>>
acceptVars == <<acceptPc, cuid, kxSteps, kxLast, kxResult, nameResult, guidResult, idFrames>>
recvVars == <<recvPc, recvFrame, performed, waitResult>>
kaVars == <<kaPc, timePassedMs>>
opVars == <<opPc, opCommand, commands>>
regVars == <<regPc, regClient, auxVars>>
\* the variables of Spec and SpecRegistry
coreVars == <<serverVars, peerVars, acceptVars, recvVars, kaVars, opVars, regPc, regClient>>
otherThanFraming == <<coreVars, timeoutVars, requestVars, sideVars>>
otherThanTimeout == <<coreVars, framingVars, requestVars, sideVars>>
vars == <<serverVars, peerVars, acceptVars, recvVars, kaVars, opVars, regVars>>

(***************************************************************************)
(* Access to the accepted connection's record.  Every thread reaches the   *)
(* record through the Client* that GetClientPtr returned; after            *)
(* m_ClientList.erase the pointer dangles, a read through it yields any    *)
(* value and a write through it reaches no live record.                    *)
(***************************************************************************)
EmptyMap == [k \in {} |-> ""]

\* ClientIsInClientList(cuid)
ClientIsInClientList(id) == id \in DOMAIN m_ClientList

InList == ClientIsInClientList(cuid)
Rec == m_ClientList[cuid]
ReadFlag(field) == IF InList THEN {Rec[field]} ELSE BOOLEAN
ReadSocket == IF InList THEN {Rec.Socket} ELSE {"open", "invalid"}
WriteRec(new) == IF InList THEN [m_ClientList EXCEPT ![cuid] = new] ELSE m_ClientList
SetFlag(field, v) ==
  IF InList THEN [m_ClientList EXCEPT ![cuid][field] = v] ELSE m_ClientList

\* the connection is usable: our socket is open and the peer has not closed
Connected == sock = "open" /\ ~peerClosed

\* Send on the connection: SOCKET_ERROR on a broken connection, else the bytes sent
SendResult == IF Connected THEN 1 ELSE SOCKET_ERROR
\* Receive with nothing left to read: 0 when the peer closed, SOCKET_ERROR
\* when our socket is closed
ReceiveResult == IF sock # "open" THEN SOCKET_ERROR ELSE IF peerClosed THEN 0 ELSE 1

\* ReadServerStateFile / SaveServerState: client_list gets one entry per
\* session of the table, keyed by its machine GUID
SaveServerState(file, list) ==
  LET guids == {list[k].MachineGUID : k \in DOMAIN list}
      of(g) == CHOOSE k \in DOMAIN list : list[k].MachineGUID = g
  IN [g \in DOMAIN file \cup guids |->
        IF g \in guids THEN list[of(g)].Wallet ELSE file[g]]

\* IsClientInSaveFile(machineGUID)
IsClientInSaveFile(file, guid) == guid \in DOMAIN file

\* Client-side effect of RemoveClientFromServer after its Alive test
Evicted(c) == Disconnect([c EXCEPT !.Alive = FALSE])

(***************************************************************************)
(* The peer.                                                               *)
(***************************************************************************)
\* the peer sends one frame (only once the receive thread runs: during the
\* handshake what the peer sent is drawn where the server reads it)
PeerSend ==
  /\ recvPc # "idle"
  /\ Connected
  /\ framesSent < MaxFrames
  /\ Len(inbox) < MaxInbox
  /\ \E f \in PeerFrames : inbox' = Append(inbox, f)
  /\ framesSent' = framesSent + 1
  /\ UNCHANGED <<sock, peerClosed, serverVars, acceptVars, recvVars, kaVars, opVars, regVars>>

\* the peer closes the connection
PeerClose ==
  /\ sock = "open"
  /\ ~peerClosed
  /\ peerClosed' = TRUE
  /\ UNCHANGED <<sock, inbox, framesSent, serverVars, acceptVars, recvVars, kaVars, opVars, regVars>>

(***************************************************************************)
(* The accept thread: AcceptTCPConnections and OnTCPConnection.            *)
(***************************************************************************)
\* AcceptOnSocket returns a connection; OnTCPConnection constructs the
\* client and adds it to the client list
Accept ==
  /\ acceptPc = "accept"
  /\ sock = "none"
  /\ Cardinality(DOMAIN m_ClientList) <= AcceptLimit
  /\ tcpAlive
  /\ m_ClientListMutex = "free"
  /\ LET id == GenerateCUID(issued) IN
       /\ issued' = id
       /\ cuid' = id
       /\ m_ClientList' = AddToClientList(m_ClientList, NewClient(id))
  /\ sock' = "open"
  /\ acceptPc' = "kx_send_len"
  /\ UNCHANGED <<m_ClientListMutex, stateFile, tcpAlive, peerClosed, inbox, framesSent,
                 kxSteps, kxLast, kxResult, nameResult, guidResult, idFrames,
                 recvVars, kaVars, opVars, regVars>>

\* ExchangePublicKeys, one socket call per step
KxCall(pc, step, result, next) ==
  /\ acceptPc = pc
  /\ kxSteps' = Append(kxSteps, step)
  /\ kxLast' = result
  /\ IF KxFailed(result)
       THEN /\ kxResult' = "false"
            /\ acceptPc' = "name"
            /\ UNCHANGED m_ClientList
       ELSE IF next = "name"
         THEN /\ kxResult' = "true"
              /\ acceptPc' = "name"
              /\ m_ClientList' = SetFlag("ClientPublicKey", "key")
         ELSE /\ acceptPc' = next
              /\ UNCHANGED <<kxResult, m_ClientList>>
  /\ UNCHANGED <<m_ClientListMutex, stateFile, tcpAlive, issued, cuid, nameResult,
                 guidResult, idFrames, peerVars, recvVars, kaVars, opVars, regVars>>

\* (GetClientPtr cannot return nullptr here: nothing erases the entry before
\* the receive thread runs)
ExchangePublicKeys ==
  \/ KxCall("kx_send_len", "send_len", SendResult, "kx_send_key")
  \/ KxCall("kx_send_key", "send_key", SendResult, "kx_recv_len")
  \/ KxCall("kx_recv_len", "recv_len", ReceiveResult, "kx_recv_key")
  \/ KxCall("kx_recv_key", "recv_key", ReceiveResult, "name")

\* GetClientComputerName and GetClientMachineGUID: ReceiveData, decrypt, the
\* validity check, then the setter
IdentityCall(pc, field, value, next) ==
  /\ acceptPc = pc
  /\ \E f \in {NoFrame, BadFrame, ResponseFrame} :
       /\ (f = NoFrame) = ~Connected
       /\ LET ok == f # NoFrame /\ IdentityGate(f) IN
            /\ m_ClientList' = IF ok THEN SetFlag(field, value) ELSE m_ClientList
            /\ IF pc = "name"
                 THEN /\ nameResult' = Bool(ok)
                      /\ idFrames' = [idFrames EXCEPT !.name = f]
                      /\ UNCHANGED guidResult
                 ELSE /\ guidResult' = Bool(ok)
                      /\ idFrames' = [idFrames EXCEPT !.guid = f]
                      /\ UNCHANGED nameResult
  /\ acceptPc' = next
  /\ UNCHANGED <<m_ClientListMutex, stateFile, tcpAlive, issued, cuid, kxSteps, kxLast,
                 kxResult, peerVars, recvVars, kaVars, opVars, regVars>>

GetClientComputerName_SkipsGuid == IdentityCall("name", "DesktopName", "name", "restore")

GetClientComputerName == IdentityCall("name", "DesktopName", "name", "guid")

GetClientMachineGUID == IdentityCall("guid", "MachineGUID", "guid", "restore")

\* if ( IsClientInSaveFile(client.GetMachineGUID()) ) GetClientSaveFile(...):
\* client is OnTCPConnection's local object, whose machine GUID was never set
GetClientSaveFile ==
  /\ acceptPc = "restore"
  /\ m_ClientList' =
       IF /\ IsClientInSaveFile(stateFile, NewClient(cuid).MachineGUID)
          /\ InList
          /\ IsClientInSaveFile(stateFile, Rec.MachineGUID)
         THEN SetFlag("Wallet", stateFile[Rec.MachineGUID])
         ELSE m_ClientList
  /\ acceptPc' = "save"
  /\ UNCHANGED <<m_ClientListMutex, stateFile, tcpAlive, issued, cuid, kxSteps, kxLast,
                 kxResult, nameResult, guidResult, idFrames, peerVars, recvVars, kaVars, opVars,
                 regVars>>

\* SaveServerState(), then the two threads, Sleep(5000) between them
OnTCPConnectionSave ==
  /\ acceptPc = "save"
  /\ m_ClientListMutex = "free"
  /\ stateFile' = SaveServerState(stateFile, m_ClientList)
  /\ acceptPc' = "spawn_recv"
  /\ UNCHANGED <<m_ClientList, m_ClientListMutex, tcpAlive, issued, cuid, kxSteps, kxLast,
                 kxResult, nameResult, guidResult, idFrames, peerVars, recvVars, kaVars, opVars,
                 regVars>>

StartReceiveThread ==
  /\ acceptPc = "spawn_recv"
  /\ recvPc' = "start"
  /\ acceptPc' = "spawn_ka"
  /\ UNCHANGED <<serverVars, peerVars, cuid, kxSteps, kxLast, kxResult, nameResult,
                 guidResult, idFrames, recvFrame, performed, waitResult, kaVars, opVars, regVars>>

StartKeepAliveThread ==
  /\ acceptPc = "spawn_ka"
  /\ kaPc' = "start"
  /\ acceptPc' = "accept"
  /\ UNCHANGED <<serverVars, peerVars, cuid, kxSteps, kxLast, kxResult, nameResult,
                 guidResult, idFrames, recvVars, timePassedMs, opVars, regVars>>

(***************************************************************************)
(* The receive thread: TCPReceiveMessagesFromClient, PingClient,           *)
(* WaitForClientResponse, OnKeepAliveEcho and PerformRequest.              *)
(***************************************************************************)
\* what a socket call through a dangling Client* can do besides its normal result
SendVia == IF InList THEN {SendResult} ELSE {SendResult, SOCKET_ERROR}
\* Client::Disconnect through the pointer: closes the connection's socket
SockAfterDisconnect == IF InList THEN {"closed"} ELSE {"closed", sock}

\* GetClientPtr, then PingClient up to its TransmitData
ReceiveStart ==
  /\ recvPc = "start"
  /\ recvPc' = IF ~InList THEN "done"
               ELSE IF Rec.Socket = "invalid" \/ SendResult = SOCKET_ERROR THEN "loop_top"
               ELSE "wait_set"
  /\ UNCHANGED <<serverVars, peerVars, acceptVars, recvFrame, performed, waitResult,
                 kaVars, opVars, regVars>>

\* WaitForClientResponse: client->ExpectingResponse = TRUE
WaitSetExpecting ==
  /\ recvPc = "wait_set"
  /\ IF InList
       THEN /\ m_ClientList' = SetFlag("ExpectingResponse", TRUE)
            /\ recvPc' = "wait_recv"
       ELSE /\ UNCHANGED m_ClientList
            /\ recvPc' = "loop_top"
  /\ UNCHANGED <<m_ClientListMutex, stateFile, tcpAlive, issued, peerVars, acceptVars,
                 recvFrame, performed, waitResult, kaVars, opVars, regVars>>

\* WaitForClientResponse: the receive bounded by SO_RCVTIMEO, the early
\* returns on timeout, on a failed receive and on a failed validity check
WaitReceive ==
  /\ recvPc = "wait_recv"
  /\ IF inbox # <<>> /\ sock = "open"
       THEN /\ inbox' = Tail(inbox)
            /\ recvFrame' = Head(inbox)
            /\ IF ResponseGate(Head(inbox))
                 THEN recvPc' = "wait_deser" /\ UNCHANGED waitResult
                 ELSE recvPc' = "loop_top" /\ waitResult' = "bad_decrypt"
       ELSE /\ waitResult' = IF Connected THEN "timeout" ELSE "failed"
            /\ recvPc' = "loop_top"
            /\ UNCHANGED <<inbox, recvFrame>>
  /\ UNCHANGED <<serverVars, sock, peerClosed, framesSent, acceptVars, performed,
                 kaVars, opVars, regVars>>

\* WaitForClientResponse: deserialize, client->ExpectingResponse = FALSE
WaitDeserialize ==
  /\ recvPc = "wait_deser"
  /\ m_ClientList' = SetFlag("ExpectingResponse", FALSE)
  /\ waitResult' = "ok"
  /\ recvPc' = "loop_top"
  /\ UNCHANGED <<m_ClientListMutex, stateFile, tcpAlive, issued, peerVars, acceptVars,
                 recvFrame, performed, kaVars, opVars, regVars>>

\* if ( client->ExpectingResponse || client->KeepAliveProcess == TRUE )
LoopTop ==
  /\ recvPc = "loop_top"
  /\ \E er \in ReadFlag("ExpectingResponse"), kap \in ReadFlag("KeepAliveProcess") :
       recvPc' = IF er \/ kap THEN "sleep" ELSE "recv"
  /\ performed' = "none"
  /\ recvFrame' = NoFrame
  /\ UNCHANGED <<serverVars, peerVars, acceptVars, waitResult, kaVars, opVars, regVars>>

\* Sleep(100); continue;
LoopSleep ==
  /\ recvPc = "sleep"
  /\ recvPc' = "loop_cond"
  /\ UNCHANGED <<serverVars, peerVars, acceptVars, recvFrame, performed, waitResult,
                 kaVars, opVars, regVars>>

\* the blocking ReceiveData of the loop
LoopReceive ==
  /\ recvPc = "recv"
  /\ \/ /\ inbox # <<>>
        /\ sock = "open"
        /\ inbox' = Tail(inbox)
        /\ recvFrame' = Head(inbox)
        /\ recvPc' = "after_recv"
     \/ /\ \/ sock # "open"
           \/ inbox = <<>> /\ peerClosed
           \/ ~InList
        /\ recvPc' = "loop_cond"
        /\ UNCHANGED <<inbox, recvFrame>>
  /\ UNCHANGED <<serverVars, sock, peerClosed, framesSent, acceptVars, performed,
                 waitResult, kaVars, opVars, regVars>>

\* the KeepAliveProcess test after the receive, else decrypt and the validity check
LoopDispatch ==
  /\ recvPc = "after_recv"
  /\ \E kap \in ReadFlag("KeepAliveProcess") :
       recvPc' = IF kap THEN "echo"
                 ELSE IF RequestGate(recvFrame) THEN "perform"
                 ELSE "loop_cond"
  /\ UNCHANGED <<serverVars, peerVars, acceptVars, recvFrame, performed, waitResult,
                 kaVars, opVars, regVars>>

\* OnKeepAliveEcho up to its validity check
OnKeepAliveEcho ==
  /\ recvPc = "echo"
  /\ IF ~InList
       THEN recvPc' = "loop_cond" /\ UNCHANGED m_ClientList
       ELSE IF ~EchoGate(recvFrame)
         THEN /\ m_ClientList' = [m_ClientList EXCEPT ![cuid].KeepAliveSuccess = FALSE,
                                                      ![cuid].KeepAliveProcess = FALSE]
              /\ recvPc' = "loop_cond"
         ELSE recvPc' = "echo_deser" /\ UNCHANGED m_ClientList
  /\ UNCHANGED <<m_ClientListMutex, stateFile, tcpAlive, issued, peerVars, acceptVars,
                 recvFrame, performed, waitResult, kaVars, opVars, regVars>>

\* OnKeepAliveEcho: deserialize, then the action test
OnKeepAliveEchoAction ==
  /\ recvPc = "echo_deser"
  /\ m_ClientList' =
       IF ~InList THEN m_ClientList
       ELSE IF recvFrame.action = "kKeepAlive"
         THEN [m_ClientList EXCEPT ![cuid].KeepAliveProcess = FALSE,
                                   ![cuid].KeepAliveSuccess = TRUE]
         ELSE [m_ClientList EXCEPT ![cuid].KeepAliveSuccess = FALSE]
  /\ recvPc' = "loop_cond"
  /\ UNCHANGED <<m_ClientListMutex, stateFile, tcpAlive, issued, peerVars, acceptVars,
                 recvFrame, performed, waitResult, kaVars, opVars, regVars>>

\* PerformRequest on the TCP server: the valid test and the switch.  Only
\* the !req.valid path has a return statement: every other path runs off
\* the end of the function, and the caller reads an indeterminate value.
PerformRequest ==
  /\ recvPc = "perform"
  /\ IF ~recvFrame.valid
       THEN recvPc' = "loop_cond" /\ performed' = "false"
       ELSE IF recvFrame.action = "kDisconnectClient"
         THEN recvPc' = "dc_save" /\ UNCHANGED performed
         ELSE recvPc' = "loop_cond" /\ performed' \in {"true", "false"}
  /\ UNCHANGED <<serverVars, peerVars, acceptVars, recvFrame, waitResult, kaVars,
                 opVars, regVars>>

\* case kDisconnectClient: SaveServerState();
DisconnectSave ==
  /\ recvPc = "dc_save"
  /\ m_ClientListMutex = "free"
  /\ stateFile' = SaveServerState(stateFile, m_ClientList)
  /\ recvPc' = "dc_erase"
  /\ UNCHANGED <<m_ClientList, m_ClientListMutex, tcpAlive, issued, peerVars, acceptVars,
                 recvFrame, performed, waitResult, kaVars, opVars, regVars>>

\* lock; m_ClientList.erase(cuid); unlock
DisconnectErase ==
  /\ recvPc = "dc_erase"
  /\ m_ClientListMutex = "free"
  /\ m_ClientList' = Erase(m_ClientList, cuid)
  /\ recvPc' = IF InList THEN "dc_disc" ELSE "dc_null"
  /\ UNCHANGED <<m_ClientListMutex, stateFile, tcpAlive, issued, peerVars, acceptVars,
                 recvFrame, performed, waitResult, kaVars, opVars, regVars>>

\* TCPClient->Disconnect() through the pointer into the erased entry, then
\* success = true and the end of the function
DisconnectClient ==
  /\ recvPc = "dc_disc"
  /\ sock' \in SockAfterDisconnect
  /\ performed' \in {"true", "false"}
  /\ recvPc' = "loop_cond"
  /\ UNCHANGED <<serverVars, peerClosed, inbox, framesSent, acceptVars, recvFrame,
                 waitResult, kaVars, opVars, regVars>>

\* TCPClient->Disconnect() with TCPClient == nullptr: the process may die,
\* and every thread with it
DisconnectNull ==
  /\ recvPc = "dc_null"
  /\ \/ /\ recvPc' = "crashed"
        /\ acceptPc' = "crashed"
        /\ kaPc' = "crashed"
        /\ opPc' = "crashed"
        /\ sock' = "closed"
        /\ UNCHANGED performed
     \/ /\ recvPc' = "loop_cond"
        /\ performed' \in {"true", "false"}
        /\ UNCHANGED <<acceptPc, kaPc, opPc, sock>>
  /\ UNCHANGED <<serverVars, peerClosed, inbox, framesSent, cuid, kxSteps, kxLast,
                 kxResult, nameResult, guidResult, idFrames, recvFrame, waitResult, timePassedMs,
                 opCommand, commands, regVars>>

\* while ( client->Alive && client->GetSocket() != INVALID_SOCKET )
LoopContinues_Never(alive, socket) == FALSE

LoopContinues(alive, socket) == alive /\ socket # "invalid"

\* the end of an iteration, reached by every continue as well
LoopCondition ==
  /\ recvPc = "loop_cond"
  /\ \E a \in ReadFlag("Alive"), s \in ReadSocket :
       recvPc' = IF LoopContinues(a, s) THEN "loop_top" ELSE "done"
  /\ UNCHANGED <<serverVars, peerVars, acceptVars, recvFrame, performed, waitResult,
                 kaVars, opVars, regVars>>

(***************************************************************************)
(* The keep-alive thread: SendKeepAlivePackets and RemoveClientFromServer. *)
(***************************************************************************)
KeepAliveStart ==
  /\ kaPc = "start"
  /\ kaPc' = IF InList THEN "send" ELSE "done"
  /\ UNCHANGED <<serverVars, peerVars, acceptVars, recvVars, timePassedMs, opVars, regVars>>

\* KeepAliveSuccess = FALSE; the probe is sent under SO_SNDTIMEO
KeepAliveProbe ==
  /\ kaPc = "send"
  /\ m_ClientList' = SetFlag("KeepAliveSuccess", FALSE)
  /\ \E sent \in SendVia : kaPc' = IF sent = SOCKET_ERROR THEN "rm_test" ELSE "set_process"

KeepAliveSend ==
  /\ KeepAliveProbe
  /\ UNCHANGED <<m_ClientListMutex, stateFile, tcpAlive, issued, peerVars, acceptVars,
                 recvVars, timePassedMs, opVars, regVars>>

\* client->KeepAliveProcess = TRUE; timePassedMs = 0
KeepAliveSetProcess ==
  /\ kaPc = "set_process"
  /\ m_ClientList' = SetFlag("KeepAliveProcess", TRUE)
  /\ timePassedMs' = 0
  /\ kaPc' = "poll"
  /\ UNCHANGED <<m_ClientListMutex, stateFile, tcpAlive, issued, peerVars, acceptVars,
                 recvVars, opVars, regVars>>

\* the condition of the poll loop, after Sleep(100); timePassedMs += 100
PollAgain_Unbounded(t, success, process) == ~success /\ process

PollAgain(t, success, process) == t < KeepAlivePolls /\ ~success /\ process

KeepAlivePoll ==
  /\ kaPc = "poll"
  /\ \E success \in ReadFlag("KeepAliveSuccess"), process \in ReadFlag("KeepAliveProcess") :
       IF PollAgain(timePassedMs + 1, success, process)
         THEN timePassedMs' = timePassedMs + 1 /\ UNCHANGED kaPc
         ELSE timePassedMs' = 0 /\ kaPc' = "clear"
  /\ UNCHANGED <<serverVars, peerVars, acceptVars, recvVars, opVars, regVars>>

\* client->KeepAliveProcess = FALSE
KeepAliveClear ==
  /\ kaPc = "clear"
  /\ m_ClientList' = SetFlag("KeepAliveProcess", FALSE)
  /\ kaPc' = "check"
  /\ UNCHANGED <<m_ClientListMutex, stateFile, tcpAlive, issued, peerVars, acceptVars,
                 recvVars, timePassedMs, opVars, regVars>>

\* if ( client->KeepAliveSuccess == FALSE )
KeepAliveCheck ==
  /\ kaPc = "check"
  /\ \E success \in ReadFlag("KeepAliveSuccess") :
       kaPc' = IF success THEN "sleep" ELSE "rm_test"
  /\ UNCHANGED <<serverVars, peerVars, acceptVars, recvVars, timePassedMs, opVars, regVars>>

\* RemoveClientFromServer: if ( client->Alive == FALSE ) return;
KeepAliveRemoveTest ==
  /\ kaPc = "rm_test"
  /\ \E a \in ReadFlag("Alive") : kaPc' = IF a THEN "rm_do" ELSE "evicted"
  /\ UNCHANGED <<serverVars, peerVars, acceptVars, recvVars, timePassedMs, opVars, regVars>>

\* RemoveClientFromServer: client->Alive = FALSE; client->Disconnect();
KeepAliveRemove ==
  /\ kaPc = "rm_do"
  /\ m_ClientList' = IF InList THEN WriteRec(Evicted(Rec)) ELSE m_ClientList
  /\ sock' \in SockAfterDisconnect
  /\ kaPc' = "evicted"
  /\ UNCHANGED <<m_ClientListMutex, stateFile, tcpAlive, issued, peerClosed, inbox,
                 framesSent, acceptVars, recvVars, timePassedMs, opVars, regVars>>

\* Sleep(keepAliveIntervalMs); while ( client->Alive )
KeepAliveSleep ==
  /\ kaPc = "sleep"
  /\ \E a \in ReadFlag("Alive") : kaPc' = IF a THEN "send" ELSE "done"
  /\ UNCHANGED <<serverVars, peerVars, acceptVars, recvVars, timePassedMs, opVars, regVars>>

(***************************************************************************)
(* The operator thread: RunUserInputOnClients with one target client.      *)
(***************************************************************************)
OperatorCommands == {"kKillClient", "kPingClient"}

\* while ( m_ClientList.size() <= 0 ) Sleep(100);
OperatorWait ==
  /\ opPc = "wait"
  /\ Cardinality(DOMAIN m_ClientList) > 0
  /\ opPc' = "prompt"
  /\ UNCHANGED <<serverVars, peerVars, acceptVars, recvVars, kaVars, opCommand, commands,
                 regVars>>

\* the prompts, GetClientPtr of the chosen client and HandleUserInput
OperatorPrompt ==
  /\ opPc = "prompt"
  /\ tcpAlive
  /\ commands < MaxCommands
  /\ commands' = commands + 1
  /\ \E c \in OperatorCommands :
       IF InList
         THEN opCommand' = c /\ opPc' = "send"
         ELSE UNCHANGED <<opCommand, opPc>>
  /\ UNCHANGED <<serverVars, peerVars, acceptVars, recvVars, kaVars, regVars>>

\* TransmitData of the command; RemoveClientFromServer after kKillClient
OperatorSend ==
  /\ opPc = "send"
  /\ opPc' = IF opCommand = "kKillClient" THEN "rm_test" ELSE "prompt"
  /\ UNCHANGED <<serverVars, peerVars, acceptVars, recvVars, kaVars, opCommand, commands,
                 regVars>>

OperatorRemoveTest ==
  /\ opPc = "rm_test"
  /\ \E a \in ReadFlag("Alive") : opPc' = IF a THEN "rm_do" ELSE "prompt"
  /\ UNCHANGED <<serverVars, peerVars, acceptVars, recvVars, kaVars, opCommand, commands,
                 regVars>>

OperatorRemove ==
  /\ opPc = "rm_do"
  /\ m_ClientList' = IF InList THEN WriteRec(Evicted(Rec)) ELSE m_ClientList
  /\ sock' \in SockAfterDisconnect
  /\ opPc' = "prompt"
  /\ UNCHANGED <<m_ClientListMutex, stateFile, tcpAlive, issued, peerClosed, inbox,
                 framesSent, acceptVars, recvVars, kaVars, opCommand, commands, regVars>>

(***************************************************************************)
(* Spec: one accepted connection.                                          *)
(***************************************************************************)
\* a buffer of size bytes whose first bytes are filled and whose rest is
\* what resize() put there
Buffer(filled, size) == [filled |-> filled, size |-> size]
NoData == Buffer(<<>>, 0)

\* no framed send or receive is in progress
FramingIdle ==
  /\ txFn = "TransmitData"
  /\ rxFn = "ReceiveData"
  /\ transport = "whole"
  /\ txPayload = <<>>
  /\ txPc = "off"
  /\ txWritten = <<>>
  /\ bytesSent = 0
  /\ txResult = "none"
  /\ rxPc = "off"
  /\ rxPos = 0
  /\ dataSize = 0
  /\ rxBuf = <<>>
  /\ bytesReceived = 0
  /\ rxResult = "none"
  /\ rxData = NoData

\* SetSocketTimeout(s, timeoutMS, type): the option holds timeoutMS afterwards
SetSocketTimeout(timeoutMS) == timeoutMS
\* the default of SO_SNDTIMEO and SO_RCVTIMEO: the call blocks without bound
DefaultTimeout == 0
\* ResetSocketTimeout(s, type): the option is back at the default afterwards
ResetSocketTimeout == DefaultTimeout

\* no bounded call is in progress
TimeoutIdle ==
  /\ sndTimeo = DefaultTimeout
  /\ rcvTimeo = DefaultTimeout
  /\ tkPc = "off"
  /\ tkSent = "none"
  /\ twPc = "off"
  /\ twOutcome = "none"
  /\ seenRcv = DefaultTimeout

\* no call of PerformRequest is modelled
RequestIdle ==
  /\ req = [valid |-> FALSE, action |-> "kNone"]
  /\ on = "TCP"
  /\ hadSession = FALSE
  /\ incoming = "none"
  /\ sendOk = TRUE
  /\ prPc = "off"
  /\ prSuccess = FALSE
  /\ prResult = "none"
  /\ udpOut = <<>>
  /\ tcpOut = <<>>

\* no use of the state file is modelled on its own
PersistIdle ==
  /\ fileKind = "json"
  /\ psCaller = "none"
  /\ psPc = "off"
  /\ psParsed = [read |-> FALSE, data |-> EmptyMap]
  /\ psRunning = TRUE

\* no whole-table iteration is modelled on its own
IterateIdle ==
  /\ itKind = "none"
  /\ itKill = FALSE
  /\ itPc = "off"
  /\ itSnapshot = {}
  /\ itTodo = {}
  /\ itCur = 0
  /\ itSent = {}
  /\ itSkipped = {}
  /\ mutPc = "off"

\* the UDP server is not modelled
UdpIdle ==
  /\ udpAlive = FALSE
  /\ udpPc = "off"
  /\ udpQueue = <<>>
  /\ udpSenders = EmptyMap
  /\ udpAddr = "none"
  /\ udpReq = [valid |-> FALSE, action |-> "kNone"]
  /\ udpReceived = <<>>
  /\ udpDispatched = <<>>

\* ShutdownServer is not modelled on its own
ShutdownIdle ==
  /\ accepting = FALSE
  /\ tcpSfd = "listening"
  /\ udpSfd = "bound"
  /\ shConfirm = FALSE
  /\ shPc = "off"
  /\ alPc = "off"

\* no probe is counted
EchoIdle == probes = 0

\* no thread of SpecMutex exists
MutexIdle ==
  /\ mxOwner = 0
  /\ mxOp = EmptyMap
  /\ mxPc = EmptyMap
  /\ mxArg = EmptyMap

SideIdle ==
  PersistIdle /\ IterateIdle /\ UdpIdle /\ ShutdownIdle /\ EchoIdle /\ MutexIdle

AuxIdle == FramingIdle /\ TimeoutIdle /\ RequestIdle /\ SideIdle

\* the state file at startup: absent or empty, or one record of an earlier run
StateFiles == {EmptyMap, [g \in {"guid"} |-> "wallet"]}

Init ==
  /\ m_ClientList = EmptyMap
  /\ m_ClientListMutex = "free"
  /\ stateFile \in StateFiles
  /\ tcpAlive = TRUE
  /\ issued = 0
  /\ sock = "none"
  /\ peerClosed = FALSE
  /\ inbox = <<>>
  /\ framesSent = 0
  /\ acceptPc = "accept"
  /\ cuid = 0
  /\ kxSteps = <<>>
  /\ kxLast = 1
  /\ kxResult = "none"
  /\ nameResult = "none"
  /\ guidResult = "none"
  /\ idFrames = [name |-> NoFrame, guid |-> NoFrame]
  /\ recvPc = "idle"
  /\ recvFrame = NoFrame
  /\ performed = "none"
  /\ waitResult = "none"
  /\ kaPc = "idle"
  /\ timePassedMs = 0
  /\ opPc = "wait"
  /\ opCommand = "kNone"
  /\ commands = 0
  /\ regPc = EmptyMap
  /\ regClient = EmptyMap
  /\ AuxIdle

AcceptThread ==
  \/ Accept
  \/ ExchangePublicKeys
  \/ GetClientComputerName
  \/ GetClientMachineGUID
  \/ GetClientSaveFile
  \/ OnTCPConnectionSave
  \/ StartReceiveThread
  \/ StartKeepAliveThread

ReceiveThread ==
  \/ ReceiveStart
  \/ WaitSetExpecting
  \/ WaitReceive
  \/ WaitDeserialize
  \/ LoopTop
  \/ LoopSleep
  \/ LoopReceive
  \/ LoopDispatch
  \/ OnKeepAliveEcho
  \/ OnKeepAliveEchoAction
  \/ PerformRequest
  \/ DisconnectSave
  \/ DisconnectErase
  \/ DisconnectClient
  \/ DisconnectNull
  \/ LoopCondition

KeepAliveThread ==
  \/ KeepAliveStart
  \/ KeepAliveSend
  \/ KeepAliveSetProcess
  \/ KeepAlivePoll
  \/ KeepAliveClear
  \/ KeepAliveCheck
  \/ KeepAliveRemoveTest
  \/ KeepAliveRemove
  \/ KeepAliveSleep

OperatorThread ==
  \/ OperatorWait
  \/ OperatorPrompt
  \/ OperatorSend
  \/ OperatorRemoveTest
  \/ OperatorRemove

Next ==
  \/ AcceptThread
  \/ ReceiveThread
  \/ KeepAliveThread
  \/ OperatorThread
  \/ PeerSend
  \/ PeerClose

Spec == Init /\ [][Next]_vars

\* the keep-alive thread is scheduled: none of its steps after the probe
\* waits for anything but Sleep
SpecKeepAliveFair == Init /\ [][Next]_vars /\ WF_vars(KeepAliveThread)

(***************************************************************************)
(* SpecRegistry: MaxSessions threads each construct a client and call      *)
(* AddToClientList concurrently; a session that was added can be erased    *)
(* (the kDisconnectClient case of PerformRequest) or evicted               *)
(* (RemoveClientFromServer).                                               *)
(***************************************************************************)
RegThreads == 1..MaxSessions

lifecycleVars ==
  <<stateFile, tcpAlive, peerVars, acceptVars, recvVars, kaVars, opVars, auxVars>>

InitRegistry ==
  /\ m_ClientList = EmptyMap
  /\ m_ClientListMutex = "free"
  /\ stateFile = EmptyMap
  /\ tcpAlive = TRUE
  /\ issued = 0
  /\ sock = "none"
  /\ peerClosed = FALSE
  /\ inbox = <<>>
  /\ framesSent = 0
  /\ acceptPc = "off"
  /\ cuid = 0
  /\ kxSteps = <<>>
  /\ kxLast = 1
  /\ kxResult = "none"
  /\ nameResult = "none"
  /\ guidResult = "none"
  /\ idFrames = [name |-> NoFrame, guid |-> NoFrame]
  /\ recvPc = "idle"
  /\ recvFrame = NoFrame
  /\ performed = "none"
  /\ waitResult = "none"
  /\ kaPc = "idle"
  /\ timePassedMs = 0
  /\ opPc = "off"
  /\ opCommand = "kNone"
  /\ commands = 0
  /\ regPc = [t \in RegThreads |-> "construct"]
  /\ regClient = [t \in RegThreads |-> NewClient(0)]
  /\ AuxIdle

\* Client client(connection, incoming); client.Alive = TRUE;
RegConstruct(t) ==
  /\ regPc[t] = "construct"
  /\ issued' = GenerateCUID(issued)
  /\ regClient' = [regClient EXCEPT ![t] = NewClient(GenerateCUID(issued))]
  /\ regPc' = [regPc EXCEPT ![t] = "lock"]
  /\ UNCHANGED <<m_ClientList, m_ClientListMutex, lifecycleVars>>

\* AddToClientList: m_ClientListMutex.lock()
RegLock(t) ==
  /\ regPc[t] = "lock"
  /\ m_ClientListMutex = "free"
  /\ m_ClientListMutex' = "held"
  /\ regPc' = [regPc EXCEPT ![t] = "insert"]
  /\ UNCHANGED <<m_ClientList, issued, regClient, lifecycleVars>>

\* AddToClientList: m_ClientList.insert(...)
RegInsert(t) ==
  /\ regPc[t] = "insert"
  /\ m_ClientList' = AddToClientList(m_ClientList, regClient[t])
  /\ regPc' = [regPc EXCEPT ![t] = "unlock"]
  /\ UNCHANGED <<m_ClientListMutex, issued, regClient, lifecycleVars>>

\* AddToClientList: m_ClientListMutex.unlock(); return true;
RegUnlock(t) ==
  /\ regPc[t] = "unlock"
  /\ m_ClientListMutex' = "free"
  /\ regPc' = [regPc EXCEPT ![t] = "added"]
  /\ UNCHANGED <<m_ClientList, issued, regClient, lifecycleVars>>

\* RemoveClientFromServer on an added session
RegEvict(t) ==
  /\ regPc[t] = "added"
  /\ regClient[t].ClientUID \in DOMAIN m_ClientList
  /\ m_ClientList[regClient[t].ClientUID].Alive
  /\ m_ClientList' = [m_ClientList EXCEPT ![regClient[t].ClientUID] = Evicted(@)]
  /\ regPc' = [regPc EXCEPT ![t] = "evicted"]
  /\ UNCHANGED <<m_ClientListMutex, issued, regClient, lifecycleVars>>

\* kDisconnectClient: lock; m_ClientList.erase(cuid); unlock
RegErase(t) ==
  /\ regPc[t] \in {"added", "evicted"}
  /\ m_ClientListMutex = "free"
  /\ m_ClientList' = Erase(m_ClientList, regClient[t].ClientUID)
  /\ regPc' = [regPc EXCEPT ![t] = "erased"]
  /\ UNCHANGED <<m_ClientListMutex, issued, regClient, lifecycleVars>>

\* ClientIsInClientList -> GetClientList: std::lock_guard lock(m_ClientListMutex)
RegLookupLock(t) ==
  /\ regPc[t] = "added"
  /\ m_ClientListMutex = "free"
  /\ m_ClientListMutex' = "held"
  /\ regPc' = [regPc EXCEPT ![t] = "lookup_locked"]
  /\ UNCHANGED <<m_ClientList, issued, regClient, lifecycleVars>>

\* GetClientList: return this->m_ClientList; the reference is returned and
\* the lock_guard is destroyed, which unlocks the mutex
RegLookupReturn(t) ==
  /\ regPc[t] = "lookup_locked"
  /\ m_ClientListMutex' = "free"
  /\ regPc' = [regPc EXCEPT ![t] = "lookup_read"]
  /\ UNCHANGED <<m_ClientList, issued, regClient, lifecycleVars>>

\* ClientIsInClientList: .contains(cuid) on the returned reference
RegLookupContains(t) ==
  /\ regPc[t] = "lookup_read"
  /\ regPc' = [regPc EXCEPT ![t] = "added"]
  /\ UNCHANGED <<m_ClientList, m_ClientListMutex, issued, regClient, lifecycleVars>>

\* the positions of a thread whose session has been erased
ErasedPcs == {"erased", "erased_again"}

\* RemoveClientFromClientList / erase(cuid) of an identifier that is no
\* longer in the table: erase returns 0 and throws nothing
RegEraseAbsent(t) ==
  /\ regPc[t] = "erased"
  /\ m_ClientListMutex = "free"
  /\ m_ClientList' = Erase(m_ClientList, regClient[t].ClientUID)
  /\ regPc' = [regPc EXCEPT ![t] = "erased_again"]
  /\ UNCHANGED <<m_ClientListMutex, issued, regClient, lifecycleVars>>

\* GetClientPtr(cuid) of an erased identifier: GetClientList locks ...
RegGoneLookupLock(t) ==
  /\ regPc[t] \in ErasedPcs
  /\ m_ClientListMutex = "free"
  /\ m_ClientListMutex' = "held"
  /\ regPc' = [regPc EXCEPT ![t] = "gone_locked"]
  /\ UNCHANGED <<m_ClientList, issued, regClient, lifecycleVars>>

\* ... and unlocks as it returns the reference
RegGoneLookupReturn(t) ==
  /\ regPc[t] = "gone_locked"
  /\ m_ClientListMutex' = "free"
  /\ regPc' = [regPc EXCEPT ![t] = "gone_read"]
  /\ UNCHANGED <<m_ClientList, issued, regClient, lifecycleVars>>

\* another thread is inside AddToClientList's critical section: its insert
\* and this thread's unlocked read of the table are a data race
InsertRacing(t) == \E u \in RegThreads \ {t} : regPc[u] = "insert"

\* what .contains(cuid) may return: the truth, or anything under the race
ContainsResults(t) ==
  IF InsertRacing(t) THEN BOOLEAN ELSE {regClient[t].ClientUID \in DOMAIN m_ClientList}

\* ClientIsInClientList: .contains(cuid) on the returned reference;
\* GetClientPtr returns nullptr when it is false
RegGoneLookupContains(t) ==
  /\ regPc[t] = "gone_read"
  /\ \E found \in ContainsResults(t) :
       regPc' = [regPc EXCEPT ![t] = IF found THEN "gone_found" ELSE "gone_absent"]
  /\ UNCHANGED <<m_ClientList, m_ClientListMutex, issued, regClient, lifecycleVars>>

NextRegistry ==
  \E t \in RegThreads :
    \/ RegConstruct(t)
    \/ RegLock(t)
    \/ RegInsert(t)
    \/ RegUnlock(t)
    \/ RegEvict(t)
    \/ RegErase(t)
    \/ RegLookupLock(t)
    \/ RegLookupReturn(t)
    \/ RegLookupContains(t)
    \/ RegEraseAbsent(t)
    \/ RegGoneLookupLock(t)
    \/ RegGoneLookupReturn(t)
    \/ RegGoneLookupContains(t)

SpecRegistry == InitRegistry /\ [][NextRegistry]_vars

(***************************************************************************)
(* SpecAccept: the accept loop of AcceptTCPConnections over many           *)
(* connections.  OnTCPConnection adds one session per accepted connection  *)
(* and never removes one; a session leaves the table by the                *)
(* kDisconnectClient case of PerformRequest.                               *)
(***************************************************************************)
\* every thread of the single-connection lifecycle is off
ThreadsOff ==
  /\ m_ClientListMutex = "free"
  /\ tcpAlive = TRUE
  /\ sock = "none"
  /\ peerClosed = FALSE
  /\ inbox = <<>>
  /\ framesSent = 0
  /\ acceptPc = "off"
  /\ cuid = 0
  /\ kxSteps = <<>>
  /\ kxLast = 1
  /\ kxResult = "none"
  /\ nameResult = "none"
  /\ guidResult = "none"
  /\ idFrames = [name |-> NoFrame, guid |-> NoFrame]
  /\ recvPc = "idle"
  /\ recvFrame = NoFrame
  /\ performed = "none"
  /\ waitResult = "none"
  /\ kaPc = "idle"
  /\ timePassedMs = 0
  /\ opPc = "off"
  /\ opCommand = "kNone"
  /\ commands = 0
  /\ regPc = EmptyMap
  /\ regClient = EmptyMap

\* in addition the server holds no session and no persisted state
LifecycleOff ==
  /\ m_ClientList = EmptyMap
  /\ stateFile = EmptyMap
  /\ issued = 0
  /\ ThreadsOff

InitAccept == LifecycleOff /\ AuxIdle

\* m_ClientList.size()
Size(list) == Cardinality(DOMAIN list)

\* one iteration of the accept loop: the loop condition, AcceptOnSocket,
\* then OnTCPConnection up to AddToClientList
AcceptTCPConnections ==
  /\ Size(m_ClientList) <= AcceptLimit
  /\ tcpAlive
  /\ m_ClientListMutex = "free"
  /\ issued' = GenerateCUID(issued)
  /\ m_ClientList' = AddToClientList(m_ClientList, NewClient(GenerateCUID(issued)))
  /\ UNCHANGED <<m_ClientListMutex, lifecycleVars, regVars>>

\* the most recent session sends kDisconnectClient: m_ClientList.erase(cuid)
AcceptedSessionErased ==
  /\ m_ClientList # EmptyMap
  /\ issued - Size(m_ClientList) < MaxChurn
  /\ m_ClientListMutex = "free"
  /\ LET last == CHOOSE k \in DOMAIN m_ClientList :
                   \A j \in DOMAIN m_ClientList : j <= k
     IN m_ClientList' = Erase(m_ClientList, last)
  /\ UNCHANGED <<m_ClientListMutex, issued, lifecycleVars, regVars>>

\* ShutdownServer(TRUE): m_TCPServerDetails.alive = FALSE
ShutdownServer ==
  /\ tcpAlive
  /\ tcpAlive' = FALSE
  /\ UNCHANGED <<m_ClientList, m_ClientListMutex, issued, stateFile, peerVars,
                 acceptVars, recvVars, kaVars, opVars, regVars>>

NextAccept ==
  \/ AcceptTCPConnections
  \/ AcceptedSessionErased
  \/ ShutdownServer

SpecAccept == InitAccept /\ [][NextAccept]_vars

(***************************************************************************)
(* SpecFraming: NetworkManager's framed send and framed receive on one TCP *)
(* connection.  The sender runs TransmitData (TCP branch, BYTESTRING       *)
(* message) or SendTCPLargeData once; the receiver runs ReceiveData or     *)
(* ReceiveTCPLargeData once.  Send and Receive are the winsock calls: a    *)
(* call for n bytes transfers between 1 and n bytes, or fails.             *)
(***************************************************************************)
\* the byte values of a payload
Bytes == {1, 2}
Payloads == UNION {[1..n -> Bytes] : n \in 0..MaxPayload}

\* sizeof(size): the length prefix is the four bytes of a uint32_t
PrefixLen == 4
\* the bytes of uint32_t size as Send reads them from &size (little-endian)
Encode32(n) == [i \in 1..PrefixLen |-> (n \div (256 ^ (i - 1))) % 256]
\* the uint32_t that Receive leaves in dataSize after writing bytes b over it
Decode32(b) == b[1] + 256 * b[2] + 65536 * b[3] + 16777216 * b[4]
Take(s, k) == SubSeq(s, 1, k)
Min(a, b) == IF a < b THEN a ELSE b

\* the bytes written to the connection and not yet read
Available == SubSeq(txWritten, rxPos + 1, Len(txWritten))

\* what Send(s, buf, n, 0) can return
SendCounts(n) ==
  (IF n = 0 THEN {0} ELSE IF transport = "short" THEN 1..n ELSE {n})
    \cup (IF transport = "failing" THEN {SOCKET_ERROR} ELSE {})

\* Receive(s, buf, n, 0) returns: it blocks while nothing is there to read
\* and the peer is still sending
CanReceive(n) ==
  n = 0 \/ Available # <<>> \/ txPc = "done" \/ transport = "failing"

\* what Receive(s, buf, n, 0) can return: 0 for n = 0 and for a closed
\* connection
RecvCounts(n) ==
  (IF n = 0 \/ Available = <<>> THEN {0}
   ELSE IF transport = "short" THEN 1..Min(n, Len(Available))
   ELSE {Min(n, Len(Available))})
    \cup (IF transport = "failing" THEN {SOCKET_ERROR} ELSE {})

InitFraming ==
  /\ LifecycleOff
  /\ TimeoutIdle
  /\ RequestIdle
  /\ SideIdle
  /\ txFn \in {"TransmitData", "SendTCPLargeData"}
  /\ rxFn \in {"ReceiveData", "ReceiveTCPLargeData"}
  /\ transport \in {"whole", "short", "failing"}
  /\ txPayload \in Payloads
  /\ txPc = "len"
  /\ txWritten = <<>>
  /\ bytesSent = 0
  /\ txResult = "none"
  /\ rxPc = "len"
  /\ rxPos = 0
  /\ dataSize = 0
  /\ rxBuf = <<>>
  /\ bytesReceived = 0
  /\ rxResult = "none"
  /\ rxData = NoData

rxVars == <<rxPc, rxPos, dataSize, rxBuf, bytesReceived, rxResult, rxData>>
txVars == <<txPc, txWritten, bytesSent, txResult>>
framingConfig == <<txFn, rxFn, transport, txPayload>>

\* TransmitData: sent = Send(s, &size, sizeof(size), 0);
\* if ( sent == SOCKET_ERROR ) return false;
TransmitDataSize ==
  /\ txFn = "TransmitData"
  /\ txPc = "len"
  /\ \E sent \in SendCounts(PrefixLen) :
       IF sent = SOCKET_ERROR
         THEN txResult' = "false" /\ txPc' = "done" /\ UNCHANGED txWritten
         ELSE /\ txWritten' = txWritten \o Take(Encode32(Len(txPayload)), sent)
              /\ txPc' = "data"
              /\ UNCHANGED txResult
  /\ UNCHANGED <<bytesSent, framingConfig, rxVars, otherThanFraming>>

\* TransmitData: sent = Send(s, serialized.data(), serialized.size(), 0);
\* return ( sent != SOCKET_ERROR );
TransmitDataSend ==
  /\ txFn = "TransmitData"
  /\ txPc = "data"
  /\ \E sent \in SendCounts(Len(txPayload)) :
       /\ txWritten' = IF sent = SOCKET_ERROR THEN txWritten
                       ELSE txWritten \o Take(txPayload, sent)
       /\ txResult' = Bool(sent # SOCKET_ERROR)
  /\ txPc' = "done"
  /\ UNCHANGED <<bytesSent, framingConfig, rxVars, otherThanFraming>>

\* SendTCPLargeData: sent = Send(s, &toSend, sizeof(toSend), 0);
\* if ( sent <= 0 ) return false;
SendTCPLargeDataSize ==
  /\ txFn = "SendTCPLargeData"
  /\ txPc = "len"
  /\ \E sent \in SendCounts(PrefixLen) :
       IF sent <= 0
         THEN txResult' = "false" /\ txPc' = "done" /\ UNCHANGED txWritten
         ELSE /\ txWritten' = txWritten \o Take(Encode32(Len(txPayload)), sent)
              /\ txPc' = "data"
              /\ UNCHANGED txResult
  /\ UNCHANGED <<bytesSent, framingConfig, rxVars, otherThanFraming>>

\* SendTCPLargeData: while ( bytesSent < toSend ) { sent = Send(...);
\* if ( sent <= 0 ) return false; bytesSent += sent; } return true;
SendTCPLargeDataLoop ==
  /\ txFn = "SendTCPLargeData"
  /\ txPc = "data"
  /\ IF bytesSent < Len(txPayload)
       THEN \E sent \in SendCounts(Len(txPayload) - bytesSent) :
              IF sent <= 0
                THEN /\ txResult' = "false"
                     /\ txPc' = "done"
                     /\ UNCHANGED <<txWritten, bytesSent>>
                ELSE /\ txWritten' =
                          txWritten \o SubSeq(txPayload, bytesSent + 1, bytesSent + sent)
                     /\ bytesSent' = bytesSent + sent
                     /\ UNCHANGED <<txResult, txPc>>
       ELSE /\ txResult' = "true"
            /\ txPc' = "done"
            /\ UNCHANGED <<txWritten, bytesSent>>
  /\ UNCHANGED <<framingConfig, rxVars, otherThanFraming>>

\* dataSize after Receive wrote k bytes over its initial value 0
SizeRead(k) ==
  Decode32([i \in 1..PrefixLen |-> IF i <= k THEN Available[i] ELSE 0])

\* ReceiveData: received = Receive(s, &dataSize, sizeof(dataSize), 0);
\* if ( received <= 0 ) return false; responseBuffer.resize(dataSize);
ReceiveDataSize ==
  /\ rxFn = "ReceiveData"
  /\ rxPc = "len"
  /\ CanReceive(PrefixLen)
  /\ \E received \in RecvCounts(PrefixLen) :
       IF received <= 0
         THEN /\ rxResult' = "false"
              /\ rxPc' = "done"
              /\ UNCHANGED <<rxPos, dataSize, rxBuf>>
         ELSE /\ dataSize' = SizeRead(received)
              /\ rxBuf' = <<>>
              /\ rxPos' = rxPos + received
              /\ rxPc' = "data"
              /\ UNCHANGED rxResult
  /\ UNCHANGED <<bytesReceived, rxData, framingConfig, txVars, otherThanFraming>>

\* ReceiveData: received = Receive(s, responseBuffer.data(), responseBuffer.size(), 0);
\* data = DeserializeToStruct(responseBuffer); return ( received > 0 );
ReceiveDataRecv ==
  /\ rxFn = "ReceiveData"
  /\ rxPc = "data"
  /\ CanReceive(dataSize)
  /\ \E received \in RecvCounts(dataSize) :
       LET k == IF received > 0 THEN received ELSE 0 IN
         /\ rxBuf' = Take(Available, k)
         /\ rxData' = Buffer(Take(Available, k), dataSize)
         /\ rxPos' = rxPos + k
         /\ rxResult' = Bool(received > 0)
  /\ rxPc' = "done"
  /\ UNCHANGED <<dataSize, bytesReceived, framingConfig, txVars, otherThanFraming>>

\* ReceiveTCPLargeData: received = Receive(s, &toReceive, sizeof(toReceive), 0);
\* if ( received <= 0 ) return false; buffer.resize(toReceive);
ReceiveTCPLargeDataSize ==
  /\ rxFn = "ReceiveTCPLargeData"
  /\ rxPc = "len"
  /\ CanReceive(PrefixLen)
  /\ \E received \in RecvCounts(PrefixLen) :
       IF received <= 0
         THEN /\ rxResult' = "false"
              /\ rxPc' = "done"
              /\ UNCHANGED <<rxPos, dataSize, rxBuf>>
         ELSE /\ dataSize' = SizeRead(received)
              /\ rxBuf' = <<>>
              /\ rxPos' = rxPos + received
              /\ rxPc' = "data"
              /\ UNCHANGED rxResult
  /\ UNCHANGED <<bytesReceived, rxData, framingConfig, txVars, otherThanFraming>>

\* ReceiveTCPLargeData: while ( bytesReceived < toReceive ) { received =
\* Receive(...); if ( received <= 0 ) return false; bytesReceived += received; }
\* data = buffer; return true;
ReceiveTCPLargeDataLoop ==
  /\ rxFn = "ReceiveTCPLargeData"
  /\ rxPc = "data"
  /\ IF bytesReceived < dataSize
       THEN /\ CanReceive(dataSize - bytesReceived)
            /\ \E received \in RecvCounts(dataSize - bytesReceived) :
                 IF received <= 0
                   THEN /\ rxResult' = "false"
                        /\ rxPc' = "done"
                        /\ UNCHANGED <<rxPos, rxBuf, bytesReceived, rxData>>
                   ELSE /\ rxBuf' = rxBuf \o Take(Available, received)
                        /\ rxPos' = rxPos + received
                        /\ bytesReceived' = bytesReceived + received
                        /\ UNCHANGED <<rxResult, rxPc, rxData>>
       ELSE /\ rxData' = Buffer(rxBuf, dataSize)
            /\ rxResult' = "true"
            /\ rxPc' = "done"
            /\ UNCHANGED <<rxPos, rxBuf, bytesReceived>>
  /\ UNCHANGED <<dataSize, framingConfig, txVars, otherThanFraming>>

NextFraming ==
  \/ TransmitDataSize
  \/ TransmitDataSend
  \/ SendTCPLargeDataSize
  \/ SendTCPLargeDataLoop
  \/ ReceiveDataSize
  \/ ReceiveDataRecv
  \/ ReceiveTCPLargeDataSize
  \/ ReceiveTCPLargeDataLoop

SpecFraming == InitFraming /\ [][NextFraming]_vars

(***************************************************************************)
(* SpecTimeout: the socket timeout options of one session's socket.  The   *)
(* keep-alive thread bounds its probe send with SO_SNDTIMEO; the receive   *)
(* thread bounds the receive of WaitForClientResponse (called by           *)
(* PingClient before the loop) with SO_RCVTIMEO and then runs the loop's   *)
(* ReceiveData.                                                            *)
(***************************************************************************)
\* WaitForClientResponse: ResetSocketTimeout at line 941 runs before the
\* function tests how the receive ended
AfterWaitReceive_SuccessOnly(outcome, t) ==
  IF outcome = "ok" THEN ResetSocketTimeout ELSE t

AfterWaitReceive(outcome, t) == ResetSocketTimeout

\* SendKeepAlivePackets: ResetSocketTimeout at line 419 runs before if ( !sent )
AfterProbeSend(sent, t) == ResetSocketTimeout

InitTimeout ==
  /\ LifecycleOff
  /\ FramingIdle
  /\ RequestIdle
  /\ SideIdle
  /\ sndTimeo = DefaultTimeout
  /\ rcvTimeo = DefaultTimeout
  /\ tkPc = "set"
  /\ tkSent = "none"
  /\ twPc = "set"
  /\ twOutcome = "none"
  /\ seenRcv = DefaultTimeout

tkVars == <<sndTimeo, tkPc, tkSent>>
twVars == <<rcvTimeo, twPc, twOutcome, seenRcv>>

\* SetSocketTimeout(client->GetSocket(), keepAliveTimeoutMs, SO_SNDTIMEO)
KeepAliveSetSocketTimeout ==
  /\ tkPc = "set"
  /\ sndTimeo' = SetSocketTimeout(keepAliveTimeoutMs)
  /\ tkSent' = "none"
  /\ tkPc' = "send"
  /\ UNCHANGED <<twVars, otherThanTimeout>>

\* BOOL sent = TransmitData(encryptedOriginal, client->GetSocket(), TCP)
KeepAliveTransmit ==
  /\ tkPc = "send"
  /\ tkSent' \in {"true", "false"}
  /\ tkPc' = "reset"
  /\ UNCHANGED <<sndTimeo, twVars, otherThanTimeout>>

\* ResetSocketTimeout(client->GetSocket(), SO_SNDTIMEO)
KeepAliveResetSocketTimeout ==
  /\ tkPc = "reset"
  /\ sndTimeo' = AfterProbeSend(tkSent, sndTimeo)
  /\ tkPc' = "sent"
  /\ UNCHANGED <<tkSent, twVars, otherThanTimeout>>

\* if ( !sent ) { RemoveClientFromServer(client); break; } else the round
\* goes on to its poll, its sleep and the next probe
KeepAliveAfterSend ==
  /\ tkPc = "sent"
  /\ tkPc' = IF tkSent = "false" THEN "done" ELSE "set"
  /\ UNCHANGED <<sndTimeo, tkSent, twVars, otherThanTimeout>>

\* SetSocketTimeout(client->GetSocket(), 10000, SO_RCVTIMEO)
WaitSetSocketTimeout ==
  /\ twPc = "set"
  /\ rcvTimeo' = SetSocketTimeout(WaitTimeoutMs)
  /\ twPc' = "recv"
  /\ UNCHANGED <<twOutcome, seenRcv, tkVars, otherThanTimeout>>

\* received = ReceiveData(encrypted, client->GetSocket(), TCP)
WaitReceiveData ==
  /\ twPc = "recv"
  /\ twOutcome' \in {"ok", "timeout", "failed", "bad_decrypt"}
  /\ twPc' = "reset"
  /\ UNCHANGED <<rcvTimeo, seenRcv, tkVars, otherThanTimeout>>

\* ResetSocketTimeout(client->GetSocket(), SO_RCVTIMEO)
WaitResetSocketTimeout ==
  /\ twPc = "reset"
  /\ rcvTimeo' = AfterWaitReceive(twOutcome, rcvTimeo)
  /\ twPc' = "returned"
  /\ UNCHANGED <<twOutcome, seenRcv, tkVars, otherThanTimeout>>

\* the receive loop's ReceiveData after PingClient has returned
LoopReceiveData ==
  /\ twPc \in {"returned", "loop"}
  /\ seenRcv' = rcvTimeo
  /\ twPc' = "loop"
  /\ UNCHANGED <<rcvTimeo, twOutcome, tkVars, otherThanTimeout>>

NextTimeout ==
  \/ KeepAliveSetSocketTimeout
  \/ KeepAliveTransmit
  \/ KeepAliveResetSocketTimeout
  \/ KeepAliveAfterSend
  \/ WaitSetSocketTimeout
  \/ WaitReceiveData
  \/ WaitResetSocketTimeout
  \/ LoopReceiveData

SpecTimeout == InitTimeout /\ [][NextTimeout]_vars

(***************************************************************************)
(* SpecRequest: one call of PerformRequest(req, on, cuid, incoming), on    *)
(* the TCP server for session 1 (from the receive loop) or on the UDP      *)
(* server with cuid = -1 (from ListenForUDPMessages).                      *)
(***************************************************************************)
\* the action codes PerformRequest has a case for, and one it has none for
RequestActions ==
  {"kDisconnectClient", "kConnectClient", "kRequestPrivateEncryptionKey",
   "kRequestPublicEncryptionKey", "kRequestRansomBTCAddress",
   "kValidateRansomPayment", "kNone"}
\* the cases that only test onTCP and break
NoReplyActions ==
  {"kRequestPublicEncryptionKey", "kRequestRansomBTCAddress", "kValidateRansomPayment"}
Addresses == {"A", "B"}

\* the session of the requesting client, key exchange and identity done
RequestSession ==
  [NewClient(1) EXCEPT !.ClientPublicKey = "key", !.DesktopName = "name",
                       !.MachineGUID = "guid"]
\* the session table at the call
RequestTable(had) == IF had THEN AddToClientList(EmptyMap, RequestSession) ELSE EmptyMap
\* the cuid argument: the session's on TCP, the default -1 on UDP
RequestCuid == IF on = "TCP" THEN RequestSession.ClientUID ELSE SOCKET_ERROR
\* Client* TCPClient = nullptr; if ( onTCP ) TCPClient = GetClientPtr(cuid);
TCPClientIsNull == on = "UDP" \/ ~hadSession

\* if ( !req.valid ) return false;
Rejected_Never(r) == FALSE

Rejected(r) == ~r.valid

InitRequest ==
  /\ ThreadsOff
  /\ FramingIdle
  /\ TimeoutIdle
  /\ SideIdle
  /\ req \in [valid : BOOLEAN, action : RequestActions]
  /\ on \in {"TCP", "UDP"}
  /\ hadSession \in BOOLEAN
  /\ incoming \in Addresses
  /\ sendOk \in BOOLEAN
  /\ m_ClientList = RequestTable(hadSession)
  /\ stateFile = EmptyMap
  /\ issued = 1
  /\ prPc = "enter"
  /\ prSuccess = FALSE
  /\ prResult = "none"
  /\ udpOut = <<>>
  /\ tcpOut = <<>>

requestInputs == <<req, on, hadSession, incoming, sendOk>>
requestFrame ==
  <<m_ClientListMutex, tcpAlive, issued, peerVars, acceptVars, recvVars, kaVars,
    opVars, regPc, regClient, framingVars, timeoutVars, sideVars, requestInputs>>

\* the valid test, then bool success = false; and the lookup of TCPClient
PerformRequestEnter ==
  /\ prPc = "enter"
  /\ IF Rejected(req)
       THEN prResult' = "false" /\ prPc' = "returned"
       ELSE prPc' = "switch" /\ UNCHANGED prResult
  /\ UNCHANGED <<prSuccess, udpOut, tcpOut, m_ClientList, stateFile, requestFrame>>

\* case kDisconnectClient: SaveServerState(); lock, erase(cuid), unlock;
\* TCPClient->Disconnect(); success = true.  With TCPClient == nullptr the
\* call through it may end the process.
CaseDisconnectClient ==
  /\ prPc = "switch"
  /\ req.action = "kDisconnectClient"
  /\ stateFile' = SaveServerState(stateFile, m_ClientList)
  /\ m_ClientList' = Erase(m_ClientList, RequestCuid)
  /\ \/ /\ prSuccess' = TRUE
        /\ prPc' = "end"
     \/ /\ TCPClientIsNull
        /\ prPc' = "crashed"
        /\ UNCHANGED prSuccess
  /\ UNCHANGED <<prResult, udpOut, tcpOut, requestFrame>>

\* case kConnectClient: if ( onTCP ) break; else reply with the TCP
\* server's details over the UDP socket to incoming
CaseConnectClient ==
  /\ prPc = "switch"
  /\ req.action = "kConnectClient"
  /\ IF on = "TCP"
       THEN UNCHANGED <<prSuccess, udpOut>>
       ELSE /\ udpOut' = IF sendOk
                           THEN Append(udpOut, [to |-> incoming, body |-> "TCPServerDetails"])
                           ELSE udpOut
            /\ prSuccess' = sendOk
  /\ prPc' = "end"
  /\ UNCHANGED <<prResult, tcpOut, m_ClientList, stateFile, requestFrame>>

\* case kRequestPrivateEncryptionKey: if ( !onTCP ) break; else transmit the
\* reply to TCPClient->GetSocket(), encrypted with TCPClient->ClientPublicKey.
\* With TCPClient == nullptr the read through it may end the process, or
\* yields a socket on which nothing is sent.
CaseRequestPrivateEncryptionKey ==
  /\ prPc = "switch"
  /\ req.action = "kRequestPrivateEncryptionKey"
  /\ IF on = "UDP"
       THEN prPc' = "end" /\ UNCHANGED <<prSuccess, tcpOut>>
       ELSE IF TCPClientIsNull
         THEN \/ prPc' = "crashed" /\ UNCHANGED <<prSuccess, tcpOut>>
              \/ prPc' = "end" /\ prSuccess' \in BOOLEAN /\ UNCHANGED tcpOut
         ELSE /\ tcpOut' = IF sendOk
                             THEN Append(tcpOut,
                                         [to |-> RequestCuid,
                                          body |-> "kReturnPrivateRSAKey",
                                          key |-> m_ClientList[RequestCuid].ClientPublicKey])
                             ELSE tcpOut
              /\ prSuccess' = sendOk
              /\ prPc' = "end"
  /\ UNCHANGED <<prResult, udpOut, m_ClientList, stateFile, requestFrame>>

\* case kRequestPublicEncryptionKey, kRequestRansomBTCAddress,
\* kValidateRansomPayment: if ( !onTCP ) break; break;
CaseNoReply ==
  /\ prPc = "switch"
  /\ req.action \in NoReplyActions
  /\ prPc' = "end"
  /\ UNCHANGED <<prSuccess, prResult, udpOut, tcpOut, m_ClientList, stateFile, requestFrame>>

\* an action code with no case: the switch does nothing
CaseNone ==
  /\ prPc = "switch"
  /\ req.action = "kNone"
  /\ prPc' = "end"
  /\ UNCHANGED <<prSuccess, prResult, udpOut, tcpOut, m_ClientList, stateFile, requestFrame>>

\* the closing brace of PerformRequest: no return statement, the caller
\* reads an indeterminate bool
PerformRequestEnd ==
  /\ prPc = "end"
  /\ prResult' \in {"true", "false"}
  /\ prPc' = "returned"
  /\ UNCHANGED <<prSuccess, udpOut, tcpOut, m_ClientList, stateFile, requestFrame>>

NextRequest ==
  \/ PerformRequestEnter
  \/ CaseDisconnectClient
  \/ CaseConnectClient
  \/ CaseRequestPrivateEncryptionKey
  \/ CaseNoReply
  \/ CaseNone
  \/ PerformRequestEnd

SpecRequest == InitRequest /\ [][NextRequest]_vars

(***************************************************************************)
(* SpecPersist: the uses of the state file by one session's threads:       *)
(* OnTCPConnection from its restore test on, and the kDisconnectClient     *)
(* case of PerformRequest, against a state file that is absent, empty,     *)
(* not parsable as JSON, or a JSON document with a client_list.            *)
(***************************************************************************)
FileKinds == {"absent", "empty", "unparsable", "json"}
\* client_list of a parsable state file: a record of an earlier run, and
\* possibly the record of a session that never sent its machine GUID
ClientLists ==
  StateFiles \cup {("" :> "anonymous"), ("" :> "anonymous") @@ ("guid" :> "wallet")}

\* ReadServerStateFile() noexcept: an absent file is created empty and a
\* null JSON returned; an empty file gives a null JSON; otherwise
\* input >> parsed, which throws nlohmann's parse_error on content that is
\* not JSON, and an exception leaving a noexcept function calls
\* std::terminate
ReadServerStateFile(kind, content) ==
  [ kind |-> IF kind = "absent" THEN "empty" ELSE kind,
    parsed |-> IF kind = "json" THEN content ELSE EmptyMap,
    terminates |-> kind = "unparsable" ]

\* the session of SpecPersist, its machine GUID received or not
PersistSession(guid) == [NewClient(1) EXCEPT !.ClientPublicKey = "key", !.MachineGUID = guid]

\* the table before the session was added: empty, or an earlier session
OtherSessions ==
  AddToClientList(EmptyMap, [NewClient(2) EXCEPT !.MachineGUID = "other", !.Wallet = "w2"])

InitPersist ==
  /\ ThreadsOff
  /\ FramingIdle
  /\ TimeoutIdle
  /\ RequestIdle
  /\ fileKind \in FileKinds
  /\ stateFile \in (IF fileKind = "json" THEN ClientLists ELSE {EmptyMap})
  /\ \E guid \in {"", "guid"}, others \in {EmptyMap, OtherSessions} :
       m_ClientList = AddToClientList(others, PersistSession(guid))
  /\ issued = 2
  /\ psCaller \in {"OnTCPConnection", "kDisconnectClient"}
  /\ psPc = IF psCaller = "OnTCPConnection" THEN "is_in_save_file" ELSE "save"
  /\ psParsed = [read |-> FALSE, data |-> EmptyMap]
  /\ psRunning = TRUE
  /\ IterateIdle
  /\ UdpIdle
  /\ ShutdownIdle
  /\ EchoIdle
  /\ MutexIdle

persistFrame ==
  <<tcpAlive, issued, peerVars, acceptVars, recvVars, kaVars, opVars, regPc, regClient,
    framingVars, timeoutVars, requestVars, iterateVars, udpVars, shutdownVars, echoVars,
    mutexVars>>

\* what a call of ReadServerStateFile at position pc leaves behind; next is
\* the position after a call that returned
PersistRead(next) ==
  LET r == ReadServerStateFile(fileKind, stateFile) IN
    /\ fileKind' = r.kind
    /\ IF r.terminates
         THEN /\ psRunning' = FALSE
              /\ psPc' = "terminated"
              /\ UNCHANGED psParsed
         ELSE /\ psParsed' = [read |-> TRUE, data |-> r.parsed]
              /\ psPc' = next
              /\ UNCHANGED psRunning

\* OnTCPConnection: if ( IsClientInSaveFile(client.GetMachineGUID()) ), on
\* the local client object
PersistIsClientInSaveFile ==
  /\ psPc = "is_in_save_file"
  /\ PersistRead(IF IsClientInSaveFile(ReadServerStateFile(fileKind, stateFile).parsed,
                                       NewClient(1).MachineGUID)
                   THEN "restore" ELSE "save")
  /\ UNCHANGED <<m_ClientList, m_ClientListMutex, stateFile, psCaller, persistFrame>>

\* GetClientSaveFile(cuid): IsClientInSaveFile on the session's machine GUID,
\* ReadServerStateFile, and the merge of the persisted record
PersistGetClientSaveFile ==
  /\ psPc = "restore"
  /\ PersistRead("save")
  /\ m_ClientList' =
       IF IsClientInSaveFile(stateFile, m_ClientList[1].MachineGUID)
         THEN [m_ClientList EXCEPT ![1].Wallet = stateFile[m_ClientList[1].MachineGUID]]
         ELSE m_ClientList
  /\ UNCHANGED <<m_ClientListMutex, stateFile, psCaller, persistFrame>>

\* SaveServerState: lock, ReadServerStateFile, one client_list entry per
\* session, write the file, unlock
PersistSaveServerState ==
  /\ psPc = "save"
  /\ m_ClientListMutex = "free"
  /\ LET r == ReadServerStateFile(fileKind, stateFile) IN
       IF r.terminates
         THEN /\ psRunning' = FALSE
              /\ psPc' = "terminated"
              /\ m_ClientListMutex' = "held"
              /\ UNCHANGED <<psParsed, fileKind, stateFile>>
         ELSE /\ psParsed' = [read |-> TRUE, data |-> r.parsed]
              /\ stateFile' = SaveServerState(r.parsed, m_ClientList)
              /\ fileKind' = "json"
              /\ psPc' = IF psCaller = "kDisconnectClient" THEN "erase" ELSE "threads"
              /\ UNCHANGED <<psRunning, m_ClientListMutex>>
  /\ UNCHANGED <<m_ClientList, psCaller, persistFrame>>

\* kDisconnectClient after SaveServerState: lock, erase(cuid), unlock
PersistErase ==
  /\ psPc = "erase"
  /\ m_ClientListMutex = "free"
  /\ m_ClientList' = Erase(m_ClientList, 1)
  /\ psPc' = "disconnected"
  /\ UNCHANGED <<m_ClientListMutex, stateFile, fileKind, psCaller, psParsed, psRunning,
                 persistFrame>>

\* the receive thread started by OnTCPConnection gets a kDisconnectClient
\* request of the session
PersistDisconnectRequest ==
  /\ psPc = "threads"
  /\ psCaller' = "kDisconnectClient"
  /\ psPc' = "save"
  /\ UNCHANGED <<m_ClientList, m_ClientListMutex, stateFile, fileKind, psParsed, psRunning,
                 persistFrame>>

NextPersist ==
  \/ PersistIsClientInSaveFile
  \/ PersistGetClientSaveFile
  \/ PersistSaveServerState
  \/ PersistErase
  \/ PersistDisconnectRequest

SpecPersist == InitPersist /\ [][NextPersist]_vars

(***************************************************************************)
(* SpecIterate: one iteration over the whole session table, the operator's *)
(* broadcast of RunUserInputOnClients or the loop of SaveServerState,      *)
(* while another thread inserts sessions (AddToClientList) and erases them *)
(* (the kDisconnectClient case), and a keep-alive thread evicts one        *)
(* (RemoveClientFromServer).                                               *)
(***************************************************************************)
\* m_ClientListMutex.lock() returns only when no thread holds the mutex
LockAcquirable_Always(mutex) == TRUE

LockAcquirable(mutex) == mutex = "free"

\* if ( host.Alive == FALSE ) continue;
SkippedByBroadcast(host) == host.Alive = FALSE

\* a session of the table, connected or already evicted
IterateSession(id, alive) ==
  LET c == [NewClient(id) EXCEPT !.ClientPublicKey = "key", !.MachineGUID = "guid"] IN
    IF alive THEN c ELSE Evicted(c)

InitIterate ==
  /\ ThreadsOff
  /\ FramingIdle
  /\ TimeoutIdle
  /\ RequestIdle
  /\ PersistIdle
  /\ UdpIdle
  /\ ShutdownIdle
  /\ EchoIdle
  /\ MutexIdle
  /\ \E a1, a2 \in BOOLEAN :
       m_ClientList = AddToClientList(AddToClientList(EmptyMap, IterateSession(1, a1)),
                                      IterateSession(2, a2))
  /\ stateFile = EmptyMap
  /\ issued = 2
  /\ itKind \in {"broadcast", "SaveServerState"}
  /\ itKill \in (IF itKind = "broadcast" THEN BOOLEAN ELSE {FALSE})
  /\ itPc = "lock"
  /\ itSnapshot = {}
  /\ itTodo = {}
  /\ itCur = 0
  /\ itSent = {}
  /\ itSkipped = {}
  /\ mutPc = "idle"

iterateFrame ==
  <<tcpAlive, peerVars, acceptVars, recvVars, kaVars, opVars, regPc, regClient,
    framingVars, timeoutVars, requestVars, persistVars, udpVars, shutdownVars, echoVars,
    mutexVars>>

\* this->m_ClientListMutex.lock(); the range-for takes begin() and end()
IterateLock ==
  /\ itPc = "lock"
  /\ LockAcquirable(m_ClientListMutex)
  /\ m_ClientListMutex' = "held"
  /\ itSnapshot' = DOMAIN m_ClientList
  /\ itTodo' = DOMAIN m_ClientList
  /\ itPc' = "loop"
  /\ UNCHANGED <<m_ClientList, stateFile, issued, itKind, itKill, itCur, itSent, itSkipped,
                 mutPc, iterateFrame>>

\* the next element of the range-for, in the table's own order; an element
\* erased under the iterator, or a rehash by an insert, invalidates it.
\* The broadcast tests host.Alive and skips the element when it is FALSE.
IterateNext ==
  /\ itPc = "loop"
  /\ itTodo # {}
  /\ \E id \in itTodo :
       /\ itTodo' = itTodo \ {id}
       /\ itCur' = id
       /\ IF id \notin DOMAIN m_ClientList \/ DOMAIN m_ClientList # itSnapshot
            THEN itPc' = "invalidated" /\ UNCHANGED itSkipped
            ELSE IF itKind = "broadcast" /\ SkippedByBroadcast(m_ClientList[id])
              THEN itPc' = "loop" /\ itSkipped' = itSkipped \cup {id}
              ELSE itPc' = "body" /\ UNCHANGED itSkipped
  /\ UNCHANGED <<m_ClientList, m_ClientListMutex, stateFile, issued, itKind, itKill,
                 itSnapshot, itSent, mutPc, iterateFrame>>

\* the body of the loop: the broadcast encrypts for the host and transmits
\* to it, and after kKillClient calls RemoveClientFromServer(&host);
\* SaveServerState copies the client into data["client_list"]
IterateBody ==
  /\ itPc = "body"
  /\ IF itKind = "broadcast"
       THEN /\ itSent' = itSent \cup {itCur}
            /\ m_ClientList' =
                 IF itKill /\ itCur \in DOMAIN m_ClientList /\ m_ClientList[itCur].Alive
                   THEN [m_ClientList EXCEPT ![itCur] = Evicted(@)]
                   ELSE m_ClientList
       ELSE UNCHANGED <<itSent, m_ClientList>>
  /\ itPc' = "loop"
  /\ UNCHANGED <<m_ClientListMutex, stateFile, issued, itKind, itKill, itSnapshot, itTodo,
                 itCur, itSkipped, mutPc, iterateFrame>>

\* after the last element: SaveServerState writes the file; unlock
IterateUnlock ==
  /\ itPc = "loop"
  /\ itTodo = {}
  /\ stateFile' = IF itKind = "SaveServerState"
                    THEN SaveServerState(stateFile, m_ClientList)
                    ELSE stateFile
  /\ m_ClientListMutex' = "free"
  /\ itPc' = "done"
  /\ UNCHANGED <<m_ClientList, issued, itKind, itKill, itSnapshot, itTodo, itCur, itSent,
                 itSkipped, mutPc, iterateFrame>>

\* another thread: AddToClientList or the erase of kDisconnectClient, each
\* beginning with m_ClientListMutex.lock()
MutatorLock ==
  /\ mutPc = "idle"
  /\ LockAcquirable(m_ClientListMutex)
  /\ m_ClientListMutex' = "held"
  /\ \/ issued < MaxSessions /\ mutPc' = "insert"
     \/ m_ClientList # EmptyMap /\ mutPc' = "erase"
  /\ UNCHANGED <<m_ClientList, stateFile, issued, itKind, itKill, itPc, itSnapshot, itTodo,
                 itCur, itSent, itSkipped, iterateFrame>>

\* this->m_ClientList.insert(std::make_pair(client.ClientUID, client));
MutatorInsert ==
  /\ mutPc = "insert"
  /\ issued' = GenerateCUID(issued)
  /\ m_ClientList' = AddToClientList(m_ClientList, IterateSession(GenerateCUID(issued), TRUE))
  /\ mutPc' = "unlock"
  /\ UNCHANGED <<m_ClientListMutex, stateFile, itKind, itKill, itPc, itSnapshot, itTodo,
                 itCur, itSent, itSkipped, iterateFrame>>

\* this->m_ClientList.erase(cuid);
MutatorErase ==
  /\ mutPc = "erase"
  /\ \E id \in DOMAIN m_ClientList : m_ClientList' = Erase(m_ClientList, id)
  /\ mutPc' = "unlock"
  /\ UNCHANGED <<m_ClientListMutex, stateFile, issued, itKind, itKill, itPc, itSnapshot,
                 itTodo, itCur, itSent, itSkipped, iterateFrame>>

\* this->m_ClientListMutex.unlock();
MutatorUnlock ==
  /\ mutPc = "unlock"
  /\ m_ClientListMutex' = "free"
  /\ mutPc' = "idle"
  /\ UNCHANGED <<m_ClientList, stateFile, issued, itKind, itKill, itPc, itSnapshot, itTodo,
                 itCur, itSent, itSkipped, iterateFrame>>

\* a keep-alive thread: RemoveClientFromServer(client), which takes no lock
\* and changes the session's fields only
IterateRemoveClientFromServer ==
  /\ \E id \in DOMAIN m_ClientList :
       /\ m_ClientList[id].Alive
       /\ m_ClientList' = [m_ClientList EXCEPT ![id] = Evicted(@)]
  /\ UNCHANGED <<m_ClientListMutex, stateFile, issued, iterateVars, iterateFrame>>

NextIterate ==
  \/ IterateLock
  \/ IterateNext
  \/ IterateBody
  \/ IterateUnlock
  \/ MutatorLock
  \/ MutatorInsert
  \/ MutatorErase
  \/ MutatorUnlock
  \/ IterateRemoveClientFromServer

SpecIterate == InitIterate /\ [][NextIterate]_vars

(***************************************************************************)
(* SpecUDP: ListenForUDPMessages on the UDP socket, with two peers that    *)
(* each send one request as ReceiveData expects it: a datagram with the    *)
(* size, then a datagram with the serialized ClientRequest.                *)
(***************************************************************************)
\* the requests a peer sends over UDP
UdpRequests ==
  {[valid |-> TRUE, action |-> "kConnectClient"], [valid |-> FALSE, action |-> "kConnectClient"]}
\* what DeserializeToStruct makes of a datagram that is not a ClientRequest
GarbageRequests == [valid : BOOLEAN, action : {"kNone"}]

Datagram(from, kind, body) == [from |-> from, kind |-> kind, body |-> body]
\* the request ReceiveData hands back for the datagram it read as payload
Deserialized(d) == IF d.kind = "payload" THEN {d.body} ELSE GarbageRequests

\* ReceiveData: return ( received > 0 ), and if ( received <= 0 ) return false
Received_Always(n) == TRUE

Received(n) == n > 0

\* what ReceiveFrom returns for the datagram at the head of the queue: its
\* length, or SOCKET_ERROR (the datagram is lost to the caller)
ReceiveFromResults == {1, SOCKET_ERROR}

InitUDP ==
  /\ LifecycleOff
  /\ FramingIdle
  /\ TimeoutIdle
  /\ RequestIdle
  /\ PersistIdle
  /\ IterateIdle
  /\ ShutdownIdle
  /\ EchoIdle
  /\ MutexIdle
  /\ udpAlive = TRUE
  /\ udpPc = "while"
  /\ udpQueue = <<>>
  /\ udpSenders \in [Addresses -> {[pc |-> "size", req |-> r] : r \in UdpRequests}]
  /\ udpAddr = "none"
  /\ udpReq = [valid |-> FALSE, action |-> "kNone"]
  /\ udpReceived = <<>>
  /\ udpDispatched = <<>>

udpFrame ==
  <<coreVars, framingVars, timeoutVars, requestVars, persistVars, iterateVars, shutdownVars,
    echoVars, mutexVars>>

\* a peer sends the next datagram of its request
UdpPeerSend(a) ==
  /\ udpSenders[a].pc \in {"size", "payload"}
  /\ udpQueue' = Append(udpQueue, Datagram(a, udpSenders[a].pc, udpSenders[a].req))
  /\ udpSenders' = [udpSenders EXCEPT
                      ![a].pc = IF udpSenders[a].pc = "size" THEN "payload" ELSE "sent"]
  /\ UNCHANGED <<udpAlive, udpPc, udpAddr, udpReq, udpReceived, udpDispatched, udpFrame>>

\* while ( this->m_UDPServerDetails.alive == TRUE ) { ClientRequest req = {};
UdpLoopCondition ==
  /\ udpPc = "while"
  /\ udpPc' = IF udpAlive THEN "recv_size" ELSE "done"
  /\ udpReq' = [valid |-> FALSE, action |-> "kNone"]
  /\ udpAddr' = "none"
  /\ UNCHANGED <<udpAlive, udpQueue, udpSenders, udpReceived, udpDispatched, udpFrame>>

\* ReceiveData, UDP branch: ReceiveFrom of the size;
\* if ( received <= 0 ) return false; and the loop's if ( !received ) continue;
UdpReceiveSize ==
  /\ udpPc = "recv_size"
  /\ udpQueue # <<>>
  /\ \E n \in ReceiveFromResults :
       /\ udpAddr' = IF n > 0 THEN Head(udpQueue).from ELSE udpAddr
       /\ udpPc' = IF Received(n) THEN "recv_data" ELSE "while"
  /\ udpQueue' = Tail(udpQueue)
  /\ UNCHANGED <<udpAlive, udpSenders, udpReq, udpReceived, udpDispatched, udpFrame>>

\* ReceiveData, UDP branch: ReceiveFrom of the data, deserialize,
\* return ( received > 0 ); and the loop's if ( !received ) continue;
UdpReceiveData ==
  /\ udpPc = "recv_data"
  /\ udpQueue # <<>>
  /\ \E n \in ReceiveFromResults :
       IF n > 0
         THEN \E r \in Deserialized(Head(udpQueue)) :
                /\ udpReq' = r
                /\ udpAddr' = Head(udpQueue).from
                /\ udpReceived' = Append(udpReceived, [req |-> r, addr |-> Head(udpQueue).from])
                /\ udpPc' = IF Received(n) THEN "perform" ELSE "while"
         ELSE /\ udpReq' \in GarbageRequests
              /\ udpPc' = IF Received(n) THEN "perform" ELSE "while"
              /\ UNCHANGED <<udpAddr, udpReceived>>
  /\ udpQueue' = Tail(udpQueue)
  /\ UNCHANGED <<udpAlive, udpSenders, udpDispatched, udpFrame>>

\* PerformRequest(req, this->m_UDPServerDetails, -1, incomingAddr);
UdpPerformRequest ==
  /\ udpPc = "perform"
  /\ udpDispatched' =
       Append(udpDispatched, [req |-> udpReq, on |-> "UDP", cuid |-> -1, incoming |-> udpAddr])
  /\ udpPc' = "while"
  /\ UNCHANGED <<udpAlive, udpQueue, udpSenders, udpAddr, udpReq, udpReceived, udpFrame>>

NextUDP ==
  \/ \E a \in Addresses : UdpPeerSend(a)
  \/ UdpLoopCondition
  \/ UdpReceiveSize
  \/ UdpReceiveData
  \/ UdpPerformRequest

SpecUDP == InitUDP /\ [][NextUDP]_vars

(***************************************************************************)
(* SpecShutdown: ShutdownServer called while the accept thread runs        *)
(* AcceptTCPConnections and the UDP thread runs ListenForUDPMessages.      *)
(* OnTCPConnection is one step here: the peer completes its handshake.     *)
(* The Server structure is not in src/; m_TCPServerDetails = {} is taken   *)
(* to leave alive and accepting FALSE and the descriptor blank.            *)
(***************************************************************************)
InitShutdown ==
  /\ LifecycleOff
  /\ FramingIdle
  /\ TimeoutIdle
  /\ RequestIdle
  /\ PersistIdle
  /\ IterateIdle
  /\ EchoIdle
  /\ MutexIdle
  /\ accepting = FALSE
  /\ tcpSfd = "listening"
  /\ udpSfd = "bound"
  /\ shConfirm \in BOOLEAN
  /\ shPc = "call"
  /\ alPc = "enter"
  /\ udpAlive = TRUE
  /\ udpPc = "while"
  /\ udpQueue = <<>>
  /\ udpSenders \in [Addresses -> {[pc |-> "size", req |-> r] : r \in UdpRequests}]
  /\ udpAddr = "none"
  /\ udpReq = [valid |-> FALSE, action |-> "kNone"]
  /\ udpReceived = <<>>
  /\ udpDispatched = <<>>

shutdownFrame ==
  <<m_ClientListMutex, stateFile, peerVars, acceptVars, recvVars, kaVars, opVars,
    regPc, regClient, framingVars, timeoutVars, requestVars, persistVars, iterateVars,
    udpVars, udpSfd, shConfirm, echoVars, mutexVars>>

\* if ( !confirm ) return;
ShutdownConfirm ==
  /\ shPc = "call"
  /\ shPc' = IF shConfirm THEN "alive" ELSE "done"
  /\ UNCHANGED <<m_ClientList, issued, tcpAlive, accepting, tcpSfd, alPc, shutdownFrame>>

\* this->m_TCPServerDetails.alive = FALSE;
ShutdownAlive ==
  /\ shPc = "alive"
  /\ tcpAlive' = FALSE
  /\ shPc' = "close"
  /\ UNCHANGED <<m_ClientList, issued, accepting, tcpSfd, alPc, shutdownFrame>>

\* ShutdownSocket(sfd, 2); CloseSocket(sfd);
ShutdownCloseSocket ==
  /\ shPc = "close"
  /\ tcpSfd' = "closed"
  /\ shPc' = "blank"
  /\ UNCHANGED <<m_ClientList, issued, tcpAlive, accepting, alPc, shutdownFrame>>

\* this->m_TCPServerDetails = {};
ShutdownBlank ==
  /\ shPc = "blank"
  /\ tcpAlive' = FALSE
  /\ accepting' = FALSE
  /\ tcpSfd' = "blank"
  /\ shPc' = "done"
  /\ UNCHANGED <<m_ClientList, issued, alPc, shutdownFrame>>

\* if ( this->m_TCPServerDetails.accepting ) return; accepting = TRUE;
AcceptLoopEnter ==
  /\ alPc = "enter"
  /\ IF accepting
       THEN alPc' = "returned" /\ UNCHANGED accepting
       ELSE alPc' = "while" /\ accepting' = TRUE
  /\ UNCHANGED <<m_ClientList, issued, tcpAlive, tcpSfd, shPc, shutdownFrame>>

\* while ( m_ClientList.size() <= 200 && m_TCPServerDetails.alive == TRUE )
AcceptLoopCondition ==
  /\ alPc = "while"
  /\ alPc' = IF Size(m_ClientList) <= AcceptLimit /\ tcpAlive THEN "accept" ELSE "exit"
  /\ UNCHANGED <<m_ClientList, issued, tcpAlive, accepting, tcpSfd, shPc, shutdownFrame>>

\* AcceptOnSocket blocks on a listening socket until a peer connects and
\* returns INVALID_SOCKET on a closed or blank descriptor;
\* if ( clientSocket == INVALID_SOCKET ) continue; OnTCPConnection(...)
AcceptLoopAccept ==
  /\ alPc = "accept"
  /\ IF tcpSfd = "listening"
       THEN /\ issued < MaxSessions
            /\ m_ClientListMutex = "free"
            /\ issued' = GenerateCUID(issued)
            /\ m_ClientList' = AddToClientList(m_ClientList, NewClient(GenerateCUID(issued)))
       ELSE UNCHANGED <<m_ClientList, issued>>
  /\ alPc' = "while"
  /\ UNCHANGED <<tcpAlive, accepting, tcpSfd, shPc, shutdownFrame>>

\* this->m_TCPServerDetails.accepting = FALSE;
AcceptLoopExit ==
  /\ alPc = "exit"
  /\ accepting' = FALSE
  /\ alPc' = "returned"
  /\ UNCHANGED <<m_ClientList, issued, tcpAlive, tcpSfd, shPc, shutdownFrame>>

ShutdownThread == ShutdownConfirm \/ ShutdownAlive \/ ShutdownCloseSocket \/ ShutdownBlank

AcceptLoopThread == AcceptLoopEnter \/ AcceptLoopCondition \/ AcceptLoopAccept \/ AcceptLoopExit

ListenForUDPMessages ==
  UdpLoopCondition \/ UdpReceiveSize \/ UdpReceiveData \/ UdpPerformRequest

NextShutdown ==
  \/ ShutdownThread
  \/ AcceptLoopThread
  \/ ListenForUDPMessages
  \/ \E a \in Addresses : UdpPeerSend(a)

\* every thread of the process is scheduled again and again
SpecShutdown ==
  /\ InitShutdown
  /\ [][NextShutdown]_vars
  /\ WF_vars(ShutdownThread)
  /\ WF_vars(AcceptLoopThread)
  /\ WF_vars(ListenForUDPMessages)

(***************************************************************************)
(* SpecEcho: the receive loop and the keep-alive loop of one established   *)
(* session whose peer is responsive: the handshake succeeded, the peer     *)
(* answered the initial PingClient, and it echoes every keep-alive probe   *)
(* it receives before the round's timeout, and sends nothing else.         *)
(***************************************************************************)
\* the record of the session after a successful OnTCPConnection
EstablishedClient(id) ==
  [NewClient(id) EXCEPT !.ClientPublicKey = "key", !.DesktopName = "name",
                        !.MachineGUID = "guid"]

InitEcho ==
  /\ m_ClientList = (1 :> EstablishedClient(1))
  /\ m_ClientListMutex = "free"
  /\ stateFile = [g \in {"guid"} |-> ""]
  /\ tcpAlive = TRUE
  /\ issued = 1
  /\ sock = "open"
  /\ peerClosed = FALSE
  /\ inbox = <<>>
  /\ framesSent = 1
  /\ acceptPc = "accept"
  /\ cuid = 1
  /\ kxSteps = <<"send_len", "send_key", "recv_len", "recv_key">>
  /\ kxLast = 1
  /\ kxResult = "true"
  /\ nameResult = "true"
  /\ guidResult = "true"
  /\ idFrames = [name |-> ResponseFrame, guid |-> ResponseFrame]
  /\ recvPc = "loop_top"
  /\ recvFrame = ResponseFrame
  /\ performed = "none"
  /\ waitResult = "ok"
  /\ kaPc = "start"
  /\ timePassedMs = 0
  /\ opPc = "wait"
  /\ opCommand = "kNone"
  /\ commands = 0
  /\ regPc = EmptyMap
  /\ regClient = EmptyMap
  /\ FramingIdle
  /\ TimeoutIdle
  /\ RequestIdle
  /\ PersistIdle
  /\ IterateIdle
  /\ UdpIdle
  /\ ShutdownIdle
  /\ MutexIdle
  /\ probes = 0

\* the echoes the peer has sent: every frame after its answer to the ping
Echoes == framesSent - 1

\* SendKeepAlivePackets up to the transmission of the probe, which the
\* peer receives when the send succeeds
EchoKeepAliveSend ==
  /\ probes < MaxProbes
  /\ KeepAliveProbe
  /\ probes' = IF kaPc' = "set_process" THEN probes + 1 ELSE probes
  /\ UNCHANGED <<m_ClientListMutex, stateFile, tcpAlive, issued, peerVars, acceptVars,
                 recvVars, timePassedMs, opVars, regPc, regClient, framingVars,
                 timeoutVars, requestVars, persistVars, iterateVars, udpVars, shutdownVars,
                 mutexVars>>

\* the peer echoes the probe while the round's poll loop still waits
PeerEcho ==
  /\ Echoes < probes
  /\ kaPc \in {"set_process", "poll"}
  /\ Connected
  /\ inbox' = Append(inbox, EchoFrame)
  /\ framesSent' = framesSent + 1
  /\ UNCHANGED <<sock, peerClosed, serverVars, acceptVars, recvVars, kaVars, opVars, regVars>>

EchoReceiveLoop ==
  \/ LoopTop
  \/ LoopSleep
  \/ LoopReceive
  \/ LoopDispatch
  \/ OnKeepAliveEcho
  \/ OnKeepAliveEchoAction
  \/ PerformRequest
  \/ LoopCondition

EchoKeepAliveLoop ==
  \/ KeepAliveStart
  \/ EchoKeepAliveSend
  \/ KeepAliveSetProcess
  \/ KeepAlivePoll
  \/ KeepAliveClear
  \/ KeepAliveCheck
  \/ KeepAliveRemoveTest
  \/ KeepAliveRemove
  \/ KeepAliveSleep

NextEcho ==
  \/ EchoReceiveLoop
  \/ EchoKeepAliveLoop
  \/ PeerEcho

SpecEcho == InitEcho /\ [][NextEcho]_vars

(***************************************************************************)
(* SpecReceive: the receive thread of one established session from its     *)
(* first statement, with the peer, while the accept thread is in the       *)
(* Sleep(5000) that precedes the start of the keep-alive thread.  The      *)
(* receive thread is scheduled again and again.  KeepAliveProcess is FALSE *)
(* throughout, so OnKeepAliveEcho is entered only through a dangling       *)
(* pointer and returns at its GetClientPtr test.                           *)
(***************************************************************************)
InitReceive ==
  /\ m_ClientList = (1 :> EstablishedClient(1))
  /\ m_ClientListMutex = "free"
  /\ stateFile = [g \in {"guid"} |-> ""]
  /\ tcpAlive = TRUE
  /\ issued = 1
  /\ sock = "open"
  /\ peerClosed = FALSE
  /\ inbox = <<>>
  /\ framesSent = 0
  /\ acceptPc = "spawn_ka"
  /\ cuid = 1
  /\ kxSteps = <<"send_len", "send_key", "recv_len", "recv_key">>
  /\ kxLast = 1
  /\ kxResult = "true"
  /\ nameResult = "true"
  /\ guidResult = "true"
  /\ idFrames = [name |-> ResponseFrame, guid |-> ResponseFrame]
  /\ recvPc = "start"
  /\ recvFrame = NoFrame
  /\ performed = "none"
  /\ waitResult = "none"
  /\ kaPc = "idle"
  /\ timePassedMs = 0
  /\ opPc = "wait"
  /\ opCommand = "kNone"
  /\ commands = 0
  /\ regPc = EmptyMap
  /\ regClient = EmptyMap
  /\ AuxIdle

TCPReceiveMessagesFromClient ==
  \/ ReceiveStart
  \/ WaitSetExpecting
  \/ WaitReceive
  \/ WaitDeserialize
  \/ LoopTop
  \/ LoopSleep
  \/ LoopReceive
  \/ LoopDispatch
  \/ OnKeepAliveEcho
  \/ PerformRequest
  \/ DisconnectSave
  \/ DisconnectErase
  \/ DisconnectClient
  \/ DisconnectNull
  \/ LoopCondition

NextReceive ==
  \/ TCPReceiveMessagesFromClient
  \/ PeerSend
  \/ PeerClose

SpecReceive ==
  InitReceive /\ [][NextReceive]_vars /\ WF_vars(TCPReceiveMessagesFromClient)

(***************************************************************************)
(* SpecMutex: two threads that call the operations which take              *)
(* m_ClientListMutex: AddToClientList, the erase of kDisconnectClient,     *)
(* SaveServerState, the broadcast of RunUserInputOnClients, GetClientList, *)
(* and GetClientData of the ServerInterface declared in Headers/server.h.  *)
(* The mutex is a std::mutex: locking it in the thread that owns it is     *)
(* undefined behaviour, of which the model keeps three outcomes: the       *)
(* thread blocks for good, the lock throws, or the lock returns.           *)
(***************************************************************************)
MutexThreads == {1, 2}

MutexOperations ==
  {"AddToClientList", "erase", "SaveServerState", "broadcast", "GetClientList",
   "GetClientData"}

\* the operations that take a cuid
TakesCuid(op) == op \in {"erase", "GetClientData"}

\* m_ClientListMutex as the other specifications see it
MutexState(owner) == IF owner = 0 THEN "free" ELSE "held"

InitMutex ==
  /\ LifecycleOff
  /\ FramingIdle
  /\ TimeoutIdle
  /\ RequestIdle
  /\ PersistIdle
  /\ IterateIdle
  /\ UdpIdle
  /\ ShutdownIdle
  /\ EchoIdle
  /\ mxOwner = 0
  /\ mxOp = [t \in MutexThreads |-> "none"]
  /\ mxPc = [t \in MutexThreads |-> "idle"]
  /\ mxArg = [t \in MutexThreads |-> 0]

mutexFrame ==
  <<tcpAlive, peerVars, acceptVars, recvVars, kaVars, opVars, regPc, regClient,
    framingVars, timeoutVars, requestVars, persistVars, iterateVars, udpVars,
    shutdownVars, echoVars>>

\* thread t sets its position, and the mutex passes to owner
MutexStep(t, pc, owner) ==
  /\ mxPc' = [mxPc EXCEPT ![t] = pc]
  /\ mxOwner' = owner
  /\ m_ClientListMutex' = MutexState(owner)

\* a thread calls one of the operations
MutexCall(t) ==
  /\ mxPc[t] = "idle"
  /\ \E op \in MutexOperations :
       /\ op = "AddToClientList" => issued < MaxSessions
       /\ mxOp' = [mxOp EXCEPT ![t] = op]
       /\ \E id \in IF TakesCuid(op) THEN 1..MaxSessions ELSE {0} :
            mxArg' = [mxArg EXCEPT ![t] = id]
       /\ MutexStep(t, IF op = "GetClientData" THEN "contains" ELSE "lock", mxOwner)
  /\ UNCHANGED <<m_ClientList, stateFile, issued, mutexFrame>>

\* m_ClientListMutex.lock(), or the lock_guard of GetClientList: blocks
\* while another thread holds the mutex
MutexLock(t) ==
  /\ mxPc[t] = "lock"
  /\ mxOwner = 0
  /\ MutexStep(t, "body", t)
  /\ UNCHANGED <<m_ClientList, stateFile, issued, mxOp, mxArg, mutexFrame>>

\* what the operation does with the mutex held
MutexBody(t) ==
  /\ mxPc[t] = "body"
  /\ m_ClientList' =
       IF mxOp[t] = "AddToClientList"
         THEN AddToClientList(m_ClientList, NewClient(GenerateCUID(issued)))
       ELSE IF mxOp[t] = "erase" THEN Erase(m_ClientList, mxArg[t])
       ELSE m_ClientList
  /\ issued' = IF mxOp[t] = "AddToClientList" THEN GenerateCUID(issued) ELSE issued
  /\ stateFile' = IF mxOp[t] = "SaveServerState"
                    THEN SaveServerState(stateFile, m_ClientList)
                    ELSE stateFile
  /\ MutexStep(t, "unlock", mxOwner)
  /\ UNCHANGED <<mxOp, mxArg, mutexFrame>>

\* m_ClientListMutex.unlock(), or the end of the lock_guard's scope
MutexUnlock(t) ==
  /\ mxPc[t] = "unlock"
  /\ MutexStep(t, "idle", 0)
  /\ mxOp' = [mxOp EXCEPT ![t] = "none"]
  /\ UNCHANGED <<m_ClientList, stateFile, issued, mxArg, mutexFrame>>

\* GetClientData: ClientIsInClientList(cuid), the lock_guard of its GetClientList()
GetClientDataContains(t) ==
  /\ mxPc[t] = "contains"
  /\ mxOwner = 0
  /\ MutexStep(t, "contains_ret", t)
  /\ UNCHANGED <<m_ClientList, stateFile, issued, mxOp, mxArg, mutexFrame>>

\* GetClientList() returns and releases; if ( !ClientIsInClientList(cuid) ) return {};
GetClientDataTest(t) ==
  /\ mxPc[t] = "contains_ret"
  /\ IF ClientIsInClientList(mxArg[t])
       THEN MutexStep(t, "gcd_lock", 0) /\ UNCHANGED mxOp
       ELSE MutexStep(t, "idle", 0) /\ mxOp' = [mxOp EXCEPT ![t] = "none"]
  /\ UNCHANGED <<m_ClientList, stateFile, issued, mxArg, mutexFrame>>

\* GetClientData: ClientListMutex.lock();
GetClientDataLock(t) ==
  /\ mxPc[t] = "gcd_lock"
  /\ mxOwner = 0
  /\ MutexStep(t, "gcd_relock", t)
  /\ UNCHANGED <<m_ClientList, stateFile, issued, mxOp, mxArg, mutexFrame>>

\* GetClientData: return GetClientList().at(cuid); the lock_guard of
\* GetClientList locks the mutex its own thread holds
GetClientDataRelock(t) ==
  /\ mxPc[t] = "gcd_relock"
  /\ \/ MutexStep(t, "blocked", mxOwner) /\ UNCHANGED mxOp
     \/ MutexStep(t, "idle", mxOwner) /\ mxOp' = [mxOp EXCEPT ![t] = "none"]
     \/ MutexStep(t, "gcd_return", mxOwner) /\ UNCHANGED mxOp
  /\ UNCHANGED <<m_ClientList, stateFile, issued, mxArg, mutexFrame>>

\* the lock_guard unlocks once at the return; GetClientData has no unlock
\* for its own lock()
GetClientDataReturn(t) ==
  /\ mxPc[t] = "gcd_return"
  /\ \E owner \in {0, t} : MutexStep(t, "idle", owner)
  /\ mxOp' = [mxOp EXCEPT ![t] = "none"]
  /\ UNCHANGED <<m_ClientList, stateFile, issued, mxArg, mutexFrame>>

NextMutex ==
  \/ \E t \in MutexThreads : MutexCall(t)
  \/ \E t \in MutexThreads : MutexLock(t)
  \/ \E t \in MutexThreads : MutexBody(t)
  \/ \E t \in MutexThreads : MutexUnlock(t)
  \/ \E t \in MutexThreads : GetClientDataContains(t)
  \/ \E t \in MutexThreads : GetClientDataTest(t)
  \/ \E t \in MutexThreads : GetClientDataLock(t)
  \/ \E t \in MutexThreads : GetClientDataRelock(t)
  \/ \E t \in MutexThreads : GetClientDataReturn(t)

SpecMutex == InitMutex /\ [][NextMutex]_vars

(***************************************************************************)
(* The claims.                                                             *)
(***************************************************************************)
Live == InList /\ Rec.Alive /\ Rec.Socket = "open"

\* C1: when the keep-alive thread has evicted the session (the probe could
\* not be sent, or no valid echo came within the timeout), the session is
\* no longer in the registry and its socket is closed.
C1_EvictionRemovesSession ==
  kaPc = "evicted" => (~InList /\ sock = "closed")

\* C2: after any interleaving of concurrent AddToClientList calls, every
\* session whose insert reported success and that was not erased since is
\* in the registry under its own identifier, holding its own record; no two
\* constructed sessions share an identifier, and every key of the registry
\* maps to the record carrying that identifier.
C2_InsertKeepsEverySession ==
  /\ \A t \in RegThreads :
       regPc[t] \in {"added", "evicted", "lookup_locked", "lookup_read"} =>
         /\ regClient[t].ClientUID \in DOMAIN m_ClientList
         /\ m_ClientList[regClient[t].ClientUID].ClientUID = regClient[t].ClientUID
  /\ \A t1, t2 \in RegThreads :
       (t1 # t2 /\ regPc[t1] # "construct" /\ regPc[t2] # "construct")
         => regClient[t1].ClientUID # regClient[t2].ClientUID
  /\ \A k \in DOMAIN m_ClientList : m_ClientList[k].ClientUID = k

\* C2 witness: every thread's insert has returned and all sessions are held
C2_Witness ==
  /\ \A t \in RegThreads : regPc[t] = "added"
  /\ Cardinality(DOMAIN m_ClientList) = MaxSessions

\* C3: once ExchangePublicKeys has failed, neither the receive thread nor
\* the keep-alive thread is started for the session, and by the time
\* OnTCPConnection is past the handshake the session is out of the registry
\* with its socket closed.
C3_KeyExchangeFailureIsTerminal ==
  kxResult = "false" =>
    /\ recvPc = "idle"
    /\ kaPc = "idle"
    /\ acceptPc \in {"spawn_recv", "spawn_ka", "accept"} => (~InList /\ sock = "closed")

\* The order of the four socket calls of ExchangePublicKeys.
KxOrder == <<"send_len", "send_key", "recv_len", "recv_key">>

\* C4: ExchangePublicKeys makes its socket calls in the order send-own-length,
\* send-own-key, receive-peer-length, receive-peer-key; it returns failure as
\* soon as one call fails (returns 0 or SOCKET_ERROR), and then the session's
\* public key stays unset; it returns success only after all four succeeded.
C4_KeyExchangeOrder ==
  /\ Len(kxSteps) <= 4
  /\ kxSteps = SubSeq(KxOrder, 1, Len(kxSteps))
  /\ kxLast <= 0 => kxResult = "false"
  /\ kxResult = "true" => (kxSteps = KxOrder /\ kxLast > 0)
  /\ kxResult = "false" => \A k \in DOMAIN m_ClientList : m_ClientList[k].ClientPublicKey = "null"
  /\ \A k \in DOMAIN m_ClientList :
       m_ClientList[k].ClientPublicKey # "null" => kxResult = "true"

\* C4 witness: the peer closed after sending only its key length
C4_Witness ==
  /\ kxSteps = KxOrder
  /\ kxLast = 0
  /\ kxResult = "false"
  /\ InList
  /\ Rec.ClientPublicKey = "null"

\* C5: on every receive path a frame that fails GoodDecrypt is never
\* deserialized (WaitForClientResponse, OnKeepAliveEcho, the request loop),
\* never dispatched to PerformRequest and never written into the host name
\* or the machine GUID; the identity calls then return false.
C5_ValidityGate ==
  /\ recvPc \in {"wait_deser", "echo_deser"} => GoodDecrypt(recvFrame)
  /\ recvPc \in {"perform", "dc_save", "dc_erase", "dc_disc", "dc_null"}
       => GoodDecrypt(recvFrame)
  /\ performed # "none" => GoodDecrypt(recvFrame)
  /\ \A k \in DOMAIN m_ClientList :
       /\ m_ClientList[k].DesktopName # "" => GoodDecrypt(idFrames.name)
       /\ m_ClientList[k].MachineGUID # "" => GoodDecrypt(idFrames.guid)
  /\ nameResult = "true" => GoodDecrypt(idFrames.name)
  /\ guidResult = "true" => GoodDecrypt(idFrames.guid)

\* C5 witness: the request loop read a frame that failed the validity check
\* and went on to its loop condition without dispatching it
C5_Witness ==
  /\ recvPc = "loop_cond"
  /\ recvFrame = BadFrame
  /\ performed = "none"
  /\ idFrames.name = BadFrame
  /\ nameResult = "false"

\* C6: a valid DisconnectClient request of a session in the registry ends
\* with the session out of the registry and PerformRequest returning true.
C6_DisconnectReportsSuccess ==
  [][DisconnectClient => (~InList' /\ performed' = "true")]_vars

\* C7: every session in the registry is connected (alive, socket open): a
\* session evicted by the keep-alive thread or killed by the operator is not
\* in the registry.
C7_RegistryIffConnected ==
  \A k \in DOMAIN m_ClientList :
    m_ClientList[k].Alive /\ m_ClientList[k].Socket = "open"

\* The code paths positioned to consume the next inbound frame.
ConsumerPaths ==
  {p \in {"response", "echo", "request"} :
     \/ p = "response" /\ recvPc = "wait_recv"
     \/ p = "echo" /\ recvPc = "recv" /\ Rec.KeepAliveProcess
     \/ p = "request" /\ recvPc = "recv" /\ ~Rec.KeepAliveProcess}

\* C8: a frame pending for a live session has exactly one code path
\* positioned to consume it, chosen by the flags: WaitForClientResponse (the
\* response path), or the loop's ReceiveData handing it to OnKeepAliveEcho
\* (KeepAliveProcess set) or to PerformRequest (no flag set).  It is stated
\* for the states in which the receive thread is parked: in a blocking
\* receive, or in the loop's Sleep(100).
C8_ExactlyOneConsumer ==
  (Live /\ inbox # <<>> /\ recvPc \in {"wait_recv", "recv", "sleep"})
    => Cardinality(ConsumerPaths) = 1

\* C9: while KeepAliveProcess is true (and no response is awaited) a pending
\* frame of a live session is read by the receive loop for OnKeepAliveEcho:
\* the loop is never in its sleep-and-continue branch then.
C9_EchoReadWhileInProgress ==
  (Live /\ Rec.KeepAliveProcess /\ ~Rec.ExpectingResponse /\ inbox # <<>>)
    => recvPc # "sleep"

\* C10: when WaitForClientResponse has returned, on whichever path, the
\* session's ExpectingResponse flag is false again.
C10_ExpectingResponseReverted ==
  (waitResult # "none" /\ InList) => ~Rec.ExpectingResponse

\* The positions of SpecRegistry at which a thread's next step reads or
\* writes the session table itself.
TableAccessPcs == {"insert", "lookup_read"}

\* C11: a thread that is about to read or write the session table holds
\* m_ClientListMutex, so the mutex is held then and no two threads are at
\* a table access at once.
C11_TableAccessUnderMutex ==
  /\ \A t \in RegThreads : regPc[t] \in TableAccessPcs => m_ClientListMutex = "held"
  /\ Cardinality({t \in RegThreads : regPc[t] \in TableAccessPcs}) <= 1

\* C12: the session table never holds more than maxConnections sessions.
C12_RegistryWithinMaxConnections ==
  Size(m_ClientList) <= maxConnections

\* a length prefix followed by the payload
Framed(B) == Encode32(Len(B)) \o B

\* C13: when the framed send has reported success, the connection carries
\* the 4-byte length prefix followed by every payload byte, in that order.
C13_SendSuccessMeansAllWritten ==
  txResult = "true" => txWritten = Framed(txPayload)

\* C14: when the sender has written a complete frame and the framed receive
\* has reported success, the receiver holds the complete payload and has
\* read exactly the frame.
C14_ReceiveSuccessMeansComplete ==
  (rxResult = "true" /\ txWritten = Framed(txPayload))
    => (rxData = Buffer(txPayload, Len(txPayload)) /\ rxPos = Len(Framed(txPayload)))

\* C15: over a transport that transfers every call whole and never fails,
\* TransmitData followed by ReceiveData reports success and yields the
\* payload unchanged, for every payload including the empty one.
C15_FramingRoundTrip ==
  (/\ txFn = "TransmitData"
   /\ rxFn = "ReceiveData"
   /\ transport = "whole"
   /\ rxResult # "none")
    => (rxResult = "true" /\ rxData = Buffer(txPayload, Len(txPayload)))

\* C16: a socket timeout is set only while its bounded call runs.  Once the
\* probe send of SendKeepAlivePackets is over, whether it succeeded or not,
\* SO_SNDTIMEO is at the default; once the receive of WaitForClientResponse
\* is over, whether it succeeded, timed out, failed or failed the validity
\* check, SO_RCVTIMEO is at the default, and the receive loop's ReceiveData
\* never finds another value.
C16_TimeoutIsTransient ==
  /\ sndTimeo # DefaultTimeout => tkPc \in {"send", "reset"}
  /\ rcvTimeo # DefaultTimeout => twPc \in {"recv", "reset"}
  /\ seenRcv = DefaultTimeout

\* C16 witness: the probe send failed, the bounded receive timed out, and the
\* receive loop has since called ReceiveData
C16_Witness ==
  /\ tkPc = "done"
  /\ tkSent = "false"
  /\ twPc = "loop"
  /\ twOutcome = "timeout"
  /\ sndTimeo = DefaultTimeout
  /\ rcvTimeo = DefaultTimeout

\* PerformRequest has left the session table, the persisted state and both
\* sockets as they were at the call
RequestChangedNothing ==
  /\ m_ClientList = RequestTable(hadSession)
  /\ stateFile = EmptyMap
  /\ udpOut = <<>>
  /\ tcpOut = <<>>

\* the TCP-only actions
TCPOnlyActions == NoReplyActions \cup {"kRequestPrivateEncryptionKey"}

\* C17: for a valid request PerformRequest returns true exactly when the
\* action was carried out; for an action code with no case and for a
\* TCP-only action arriving over UDP it returns false and changes nothing.
C17_ReturnsWhetherCarriedOut ==
  (prPc = "returned" /\ req.valid) =>
    /\ prResult = Bool(prSuccess)
    /\ (req.action = "kNone" \/ (req.action \in TCPOnlyActions /\ on = "UDP"))
         => (prResult = "false" /\ RequestChangedNothing)

\* C18: a request whose valid flag is unset is rejected: PerformRequest
\* returns false without reaching the switch, and the session table, the
\* persisted state and the sockets stay as they were.
C18_InvalidRequestRejected ==
  (~req.valid /\ prPc \notin {"off", "enter"}) =>
    /\ prPc = "returned"
    /\ prResult = "false"
    /\ ~prSuccess
    /\ RequestChangedNothing

\* C18 witness: an invalid kDisconnectClient request of a registered session
\* over TCP has been rejected
C18_Witness ==
  /\ ~req.valid
  /\ req.action = "kDisconnectClient"
  /\ on = "TCP"
  /\ hadSession
  /\ prPc = "returned"
  /\ prResult = "false"
  /\ RequestCuid \in DOMAIN m_ClientList

\* C19: a valid kConnectClient request over UDP from an address gets exactly
\* one reply with the TCP server's details, sent over the UDP socket to that
\* address, and leaves the session table alone; over TCP it sends nothing,
\* changes nothing and PerformRequest returns false.
C19_ConnectClientReply ==
  (prPc = "returned" /\ req.valid /\ req.action = "kConnectClient") =>
    /\ (on = "UDP" /\ sendOk) =>
         /\ udpOut = <<[to |-> incoming, body |-> "TCPServerDetails"]>>
         /\ tcpOut = <<>>
         /\ m_ClientList = RequestTable(hadSession)
    /\ on = "TCP" => (RequestChangedNothing /\ prResult = "false")

\* C20: for a valid key, address or payment-status request, over UDP or
\* for a session that is not in the table nothing is transmitted and
\* PerformRequest returns false (and the process is still running); over TCP
\* for a session of the table one reply encrypted with the session's public
\* key is transmitted to that session.
C20_KeyRequestsValidated ==
  (req.valid /\ req.action \in TCPOnlyActions /\ prPc \in {"returned", "crashed"}) =>
    /\ prPc = "returned"
    /\ (on = "UDP" \/ ~hadSession) =>
         (udpOut = <<>> /\ tcpOut = <<>> /\ prResult = "false")
    /\ (on = "TCP" /\ hadSession /\ sendOk) =>
         /\ Len(tcpOut) = 1
         /\ tcpOut[1].to = RequestCuid
         /\ tcpOut[1].key = RequestSession.ClientPublicKey

\* the receive or the decrypt of an identity frame failed
IdentityFailed(f) == f = NoFrame \/ ~GoodDecrypt(f)

\* C21: identity resolution is best-effort: when receiving or decrypting the
\* host name (the machine identifier) fails, that session field stays unset,
\* the call reports failure, and OnTCPConnection goes on all the same: from
\* the host-name request to the machine-identifier request, to the restore
\* test, to SaveServerState, to the start of the receive thread and of the
\* keep-alive thread.  (The one other way out of a step is the end of the
\* whole process, when the receive thread started in between calls through a
\* null session pointer.)
C21_IdentityBestEffort ==
  /\ []((acceptPc \in {"guid", "restore"} /\ IdentityFailed(idFrames.name) /\ InList)
          => (Rec.DesktopName = NewClient(cuid).DesktopName /\ nameResult = "false"))
  /\ []((acceptPc = "restore" /\ IdentityFailed(idFrames.guid) /\ InList)
          => (Rec.MachineGUID = NewClient(cuid).MachineGUID /\ guidResult = "false"))
  /\ [][\/ acceptPc' = "crashed"
        \/ /\ acceptPc = "name" => acceptPc' = "guid"
           /\ acceptPc = "guid" => acceptPc' = "restore"
           /\ acceptPc = "restore" => acceptPc' = "save"
           /\ acceptPc = "save" =>
                (acceptPc' = "spawn_recv" /\ stateFile' = SaveServerState(stateFile, m_ClientList))
           /\ acceptPc = "spawn_recv" => (acceptPc' = "spawn_ka" /\ recvPc' = "start")
           /\ acceptPc = "spawn_ka" => kaPc' = "start"]_acceptPc

\* C21 witness: the host name failed to decrypt, the machine identifier was
\* received, and both threads have been started
C21_Witness ==
  /\ idFrames.name = BadFrame
  /\ nameResult = "false"
  /\ guidResult = "true"
  /\ InList
  /\ Rec.DesktopName = ""
  /\ Rec.MachineGUID = "guid"
  /\ Rec.MachineGUID \in DOMAIN stateFile
  /\ recvPc # "idle"
  /\ kaPc # "idle"

\* C22: if the machine identifier received in the handshake matches a record
\* of the persisted client_list, then after the restore step (and so once the
\* session is Active) the session held in the registry carries the persisted
\* fields of that record.
C22_StateRestored ==
  (acceptPc = "save" /\ InList /\ guidResult = "true"
     /\ IsClientInSaveFile(stateFile, Rec.MachineGUID))
    => Rec.Wallet = stateFile[Rec.MachineGUID]

\* C23: a persistence failure is never fatal: with the state file absent,
\* empty or not parsable, ReadServerStateFile yields no prior state and the
\* process keeps running; the accept path goes on to start the session's
\* threads and the disconnect path goes on to erase the session.
C23_PersistenceFailureNotFatal ==
  /\ psRunning
  /\ psPc # "terminated"
  /\ (psParsed.read /\ fileKind \in {"empty", "unparsable"}) => psParsed.data = EmptyMap

\* the positions of a thread after its session's identifier was erased
AfterErasePcs == ErasedPcs \cup {"gone_locked", "gone_read", "gone_found", "gone_absent"}

\* C24: once a session's identifier has been erased from the registry it is
\* absent from it and every lookup of it (ClientIsInClientList, GetClientPtr)
\* reports absent, no identifier being inserted twice; erasing an identifier
\* that is absent leaves the registry as it was.
C24_RemovedStaysAbsent ==
  /\ [](\A t \in RegThreads :
          regPc[t] \in AfterErasePcs =>
            /\ regClient[t].ClientUID \notin DOMAIN m_ClientList
            /\ regPc[t] # "gone_found")
  /\ [][\A t \in RegThreads :
          (regPc[t] = "erased" /\ regPc'[t] = "erased_again") => m_ClientList' = m_ClientList]_vars

\* the positions of OnTCPConnection, in the order of its statements
LifecycleOrder ==
  <<"accept", "kx_send_len", "kx_send_key", "kx_recv_len", "kx_recv_key", "name", "guid",
    "restore", "save", "spawn_recv", "spawn_ka">>
StepIndex(pc) == CHOOSE i \in DOMAIN LifecycleOrder : LifecycleOrder[i] = pc
\* the position that follows pc, a failed key exchange returning to its caller
FollowsInOrder(pc, next) ==
  \/ StepIndex(next) = (StepIndex(pc) % Len(LifecycleOrder)) + 1
  \/ pc \in {"kx_send_len", "kx_send_key", "kx_recv_len"} /\ next = "name"

\* C25: per TCP session the lifecycle steps happen in the stated order and
\* none is skipped: insertion into the registry with Alive = TRUE, key
\* exchange, host-name request, machine-identifier request, restore test,
\* SaveServerState, start of the receive thread, start of the keep-alive
\* thread; the disconnect path runs only for a session that was accepted.
C25_LifecycleOrder ==
  /\ [](/\ acceptPc \in {"guid", "restore", "save", "spawn_recv", "spawn_ka"} =>
             (kxResult # "none" /\ nameResult # "none")
        /\ acceptPc \in {"restore", "save", "spawn_recv", "spawn_ka"} => guidResult # "none"
        /\ recvPc # "idle" => (acceptPc \in {"spawn_ka", "accept", "crashed"} /\ guidResult # "none")
        /\ kaPc # "idle" => (recvPc # "idle" /\ acceptPc \in {"accept", "crashed"})
        /\ (recvPc \in {"dc_save", "dc_erase", "dc_disc", "dc_null"} \/ sock = "closed")
             => (issued > 0 /\ cuid = issued))
  /\ [][/\ (acceptPc' # acceptPc /\ acceptPc' # "crashed") => FollowsInOrder(acceptPc, acceptPc')
        /\ (acceptPc = "accept" /\ acceptPc' = "kx_send_len") =>
             (cuid' \in DOMAIN m_ClientList' /\ cuid' \notin DOMAIN m_ClientList
                /\ m_ClientList'[cuid'].Alive)
        /\ (acceptPc = "save" /\ acceptPc' = "spawn_recv") =>
             stateFile' = SaveServerState(stateFile, m_ClientList)
        /\ (recvPc = "idle" /\ recvPc' \notin {"idle", "crashed"}) => (acceptPc = "spawn_recv" /\ recvPc' = "start")
        /\ (kaPc = "idle" /\ kaPc' \notin {"idle", "crashed"}) => (acceptPc = "spawn_ka" /\ kaPc' = "start")]_vars

\* C25 witness: every step of the handshake succeeded and both threads run
C25_Witness ==
  /\ acceptPc = "accept"
  /\ issued = 1
  /\ kxResult = "true"
  /\ nameResult = "true"
  /\ guidResult = "true"
  /\ recvPc \notin {"idle", "crashed"}
  /\ kaPc \notin {"idle", "crashed"}

\* C26: the keep-alive loop runs only while the session is alive: an
\* iteration, the first one included, starts only with the session in the
\* registry and its Alive flag TRUE, so that no probe is sent in an iteration
\* that began with the flag FALSE.
C26_KeepAliveOnlyWhileAlive ==
  [][(kaPc # "send" /\ kaPc' = "send") => (InList /\ Rec.Alive)]_vars

\* C27: every keep-alive round terminates: the poll loop makes at most
\* KeepAlivePolls polls, each poll can be taken whatever the receive thread
\* and the peer do, KeepAliveProcess is FALSE after the loop, and the round
\* goes on to evict the session or to sleep the keep-alive interval.
C27_KeepAliveRoundTerminates ==
  /\ [](kaPc = "poll" => (timePassedMs < KeepAlivePolls /\ ENABLED KeepAlivePoll))
  /\ []((kaPc = "check" /\ InList) => ~Rec.KeepAliveProcess)
  /\ [][(kaPc = "poll" /\ kaPc' = "poll") => timePassedMs' = timePassedMs + 1]_<<kaPc, timePassedMs>>
  /\ [][kaPc = "poll" => kaPc' \in {"clear", "crashed"}]_kaPc
  /\ (kaPc = "poll") ~> (kaPc \in {"evicted", "sleep", "crashed"})

\* C27 witness: the last poll of a round is due while the receive thread is
\* blocked in its socket read and the peer is silent
C27_Witness ==
  /\ kaPc = "poll"
  /\ timePassedMs = KeepAlivePolls - 1
  /\ recvPc = "recv"
  /\ inbox = <<>>
  /\ Connected

\* C28: a decrypt-validity failure does not end the receive loop: a frame
\* that fails the check is dropped without any effect on the session and the
\* loop goes to its condition; with the session still alive the loop starts
\* its next iteration; and a valid frame the loop reads when no keep-alive
\* round is in progress is handed to PerformRequest.
C28_BadFrameDoesNotEndLoop ==
  /\ [][(recvPc = "after_recv" /\ ~GoodDecrypt(recvFrame) /\ InList /\ ~Rec.KeepAliveProcess)
          => (recvPc' = "loop_cond" /\ UNCHANGED <<m_ClientList, stateFile, sock, performed>>)]_recvPc
  /\ [][(recvPc = "loop_cond" /\ InList /\ Rec.Alive /\ Rec.Socket = "open")
          => recvPc' = "loop_top"]_recvPc
  /\ [][(recvPc = "after_recv" /\ GoodDecrypt(recvFrame) /\ InList /\ ~Rec.KeepAliveProcess)
          => recvPc' = "perform"]_recvPc

\* C28 witness: the loop has just dropped a frame that failed the check, the
\* session is alive and connected, and the peer's next frame, a valid
\* request, is waiting
C28_Witness ==
  /\ recvPc = "loop_cond"
  /\ recvFrame = BadFrame
  /\ Live
  /\ ~Rec.KeepAliveProcess
  /\ Connected
  /\ inbox = <<DisconnectFrame>>

UdpCallFor(r) == [req |-> r.req, on |-> "UDP", cuid |-> SOCKET_ERROR, incoming |-> r.addr]

\* C30: while the UDP server is alive its receive loop hands every request
\* ReceiveData reported as received to PerformRequest exactly once, in
\* order, on the UDP server, with cuid = -1 and the sender's address; a
\* failed receive dispatches nothing, and the loop goes on to its next
\* iteration.
C30_UdpDispatchExactlyOnce ==
  /\ [](/\ Len(udpDispatched) = Len(udpReceived) - (IF udpPc = "perform" THEN 1 ELSE 0)
        /\ \A i \in DOMAIN udpDispatched : udpDispatched[i] = UdpCallFor(udpReceived[i])
        /\ udpPc # "done")
  /\ [][(udpPc \in {"recv_size", "recv_data"} /\ udpReceived' = udpReceived)
          => (udpPc' \in {"while", "recv_data"} /\ udpDispatched' = udpDispatched)]_udpPc
  /\ [][(udpPc \in {"while", "perform"}) => (udpPc' \in {"recv_size", "while"})]_udpPc

\* C30 witness: both peers' requests were received and dispatched, after a
\* receive that failed
C30_Witness ==
  /\ Len(udpDispatched) = 2
  /\ udpDispatched[1].incoming # udpDispatched[2].incoming
  /\ udpDispatched[1].req \in UdpRequests
  /\ udpDispatched[2].req \in UdpRequests
  /\ udpPc = "while"

\* a call of ShutdownServer(true) has returned
ShutDown == shPc = "done" /\ shConfirm

\* C31: ShutdownServer(false) changes nothing; after ShutdownServer(true)
\* the TCP server's alive flag is false and its socket is closed, the accept
\* loop eventually stops with the accepting flag false, and the UDP receive
\* loop eventually stops as well.
C31_ShutdownTearsDown ==
  /\ [][(shPc = "call" /\ ~shConfirm) =>
          (shPc' = "done" /\ UNCHANGED <<tcpAlive, accepting, tcpSfd, udpAlive, udpSfd>>)]_shPc
  /\ [](ShutDown => (~tcpAlive /\ tcpSfd # "listening"))
  /\ (ShutDown ~> (alPc = "returned" /\ ~accepting))
  /\ (ShutDown ~> (udpPc = "done"))

\* the peer has echoed every probe transmitted to it, in time
EchoedEveryProbe == probes > 0 /\ Echoes = probes

\* the receive loop has run during the round and is not in the middle of
\* reading a frame: it sits in the Sleep(100) of its first branch
ReceiveLoopSleeps == recvPc = "sleep"

\* C32: a responsive peer is never evicted: when the peer has echoed every
\* keep-alive probe within the timeout and the receive loop has run during
\* the round, the echo is recognised: the round's test, which decides the
\* eviction, finds KeepAliveSuccess TRUE.
C32_ResponsivePeerNeverEvicted ==
  (kaPc = "check" /\ EchoedEveryProbe /\ ReceiveLoopSleeps) =>
    (InList /\ Rec.KeepAliveSuccess)

\* a frame of the peer waits unread on the connection of a live session
\* whose receive loop runs
FramePending ==
  /\ inbox # <<>>
  /\ sock = "open"
  /\ InList
  /\ Rec.Alive
  /\ recvPc \notin {"idle", "done", "crashed"}

Erased == cuid # 0 /\ ~InList

\* positions at which a thread holds no Client* it obtained earlier: before
\* its GetClientPtr, or after its function has returned
NoPointerHeld ==
  /\ recvPc \in {"idle", "start", "done", "crashed"}
  /\ kaPc \in {"idle", "start", "done", "evicted", "crashed"}
  /\ opPc \in {"off", "wait", "prompt", "crashed"}

\* C34: no thread uses a session record after it has been erased from the
\* registry: once the identifier is erased, neither the dispatcher nor the
\* receive loop, the keep-alive loop or the operator thread goes on with a
\* pointer obtained earlier, and a kDisconnectClient request for an
\* identifier that is not in the registry calls Disconnect on no record.
C34_NoUseAfterErase ==
  /\ Erased => NoPointerHeld
  /\ recvPc # "dc_null"

\* positions at which a thread is about to acquire the mutex
AcquirePcs == {"lock", "contains", "gcd_lock", "gcd_relock"}

\* positions of the mutex's holder from which it goes on to release it
ReleasingPcs == {"body", "unlock", "contains_ret"}

\* C35: every registry operation releases the registry mutex before it
\* returns and never acquires it while holding it: the mutex is free when
\* no thread is inside an operation, no thread is about to lock the mutex
\* it owns, and the holder is always on its way to the unlock, so that no
\* call blocks on the mutex forever.
C35_MutexReleased ==
  /\ (\A t \in DOMAIN mxPc : mxPc[t] = "idle") => mxOwner = 0
  /\ \A t \in DOMAIN mxPc : mxPc[t] \in AcquirePcs => mxOwner # t
  /\ mxOwner # 0 => mxPc[mxOwner] \in ReleasingPcs

\* C36: eviction is performed at most once per session: a call of
\* RemoveClientFromServer that has passed its Alive test, and goes on to set
\* Alive FALSE and to disconnect the socket, acts on a session whose Alive is
\* still TRUE, also when the keep-alive loop and the operator's kill path
\* call it concurrently.
C36_EvictionAtMostOnce ==
  /\ (kaPc = "rm_do" /\ InList) => Rec.Alive
  /\ (opPc = "rm_do" /\ InList) => Rec.Alive

====
